---- MODULE Spec2Model ----
(***************************************************************************)
(* CS-HANDOFF-V2: the status policy, the feed ordering policy, the feed    *)
(* loader with its onboarding gate and realtime reloads, the detail screen *)
(* (append update, mark resolved), the create and onboarding screens, the  *)
(* SMS endpoints (alert, reply, notify) and the resolve endpoint, modelled *)
(* from the TypeScript sources.                                            *)
(*                                                                         *)
(* Strings are sequences of one-character strings, so that trim(),         *)
(* toLowerCase() and the token regular expression are computed character   *)
(* by character.  Timestamps are epoch-millisecond integers, the value     *)
(* new Date(iso).getTime() yields.                                         *)
(***************************************************************************)
EXTENDS Integers, Sequences, FiniteSets, TLC

VARIABLES
    rawStatus,      \* StatusPill: the status prop handed to the component
    rawParts,       \* how rawStatus was typed: [base, casing, lead, trail]
    pill,           \* StatusPill: what was rendered for rawStatus
    dbHandoffs,     \* backend table handoffs: sequence of rows, row i has id i
    dbProfiles,     \* backend table profiles: sequence of rows, one per user id
    session,        \* the browser's auth session: a user id or NoUser
    feedUserId,     \* feed screen: userId state
    feedLoading,    \* feed screen: loading state
    feedError,      \* feed screen: errorMsg state
    feedHandoffs,   \* feed screen: handoffs state (the loaded list)
    showResolved,   \* feed screen: showResolved state
    feedRoute,      \* where the router is: "feed", "onboarding" or "auth"
    dbUpdates,      \* backend table handoff_updates: sequence of rows, oldest first
    updatePolicy,   \* backend: whether access control admits UPDATE on handoffs
    dId,            \* detail screen: the id route parameter
    dLoading,       \* detail screen: loading state
    dError,         \* detail screen: errorMsg state
    dHandoff,       \* detail screen: handoff state
    dUpdates,       \* detail screen: updates state
    newUpdate,      \* detail screen: newUpdate state (the textarea)
    savingUpdate,   \* detail screen: savingUpdate state
    resolving,      \* detail screen: resolving state
    toast,          \* detail screen: toast state
    dLoads,         \* detail screen: the load() calls in flight, by caller
    dAdd,           \* detail screen: the insert request of addUpdate() in flight
    dRes,           \* detail screen: the update request of markResolved() in flight
    dRoute,         \* detail screen: where its router is: "detail", "feed" or "auth"
    dSms,           \* detail screen: smsSending state, the fetch of sendSms() in flight
    webhookSecret,  \* relay endpoints: process.env.SMS_WEBHOOK_SECRET
    relayReq,       \* relay endpoints: the last request received
    relayReply,     \* relay endpoints: the answer to it
    fLoads,         \* feed screen: the runs of loadSessionAndFeed() in flight
    fNotes,         \* realtime channel "feed": notifications not yet delivered
    create,         \* create screen: its useState values, the insert in flight
    onboard         \* onboarding screen: its useState values, the upserts in flight

statusVars == <<rawStatus, rawParts, pill>>

dbVars == <<dbHandoffs, dbProfiles>>

feedScreenVars ==
    <<feedUserId, feedLoading, feedError, feedHandoffs, showResolved, feedRoute>>

feedVars == <<session, feedScreenVars>>

detailScreenVars ==
    <<dId, dLoading, dError, dHandoff, dUpdates, newUpdate, savingUpdate,
      resolving, toast, dLoads, dAdd, dRes, dRoute, dSms>>

detailVars == <<dbUpdates, updatePolicy, detailScreenVars>>

relayVars == <<webhookSecret, relayReq, relayReply>>

liveVars == <<fLoads, fNotes>>

restVars == <<liveVars, create, onboard>>

vars == <<statusVars, dbVars, feedVars, detailVars, relayVars, restVars>>

(***************************************************************************)
(* Strings                                                                 *)
(***************************************************************************)

\* JavaScript null / undefined, as a value no string is equal to.
Null == <<"<null>">>

UpperChars ==
    <<"A","B","C","D","E","F","G","H","I","J","K","L","M",
      "N","O","P","Q","R","S","T","U","V","W","X","Y","Z">>

LowerChars ==
    <<"a","b","c","d","e","f","g","h","i","j","k","l","m",
      "n","o","p","q","r","s","t","u","v","w","x","y","z">>

\* White space String.prototype.trim() strips (the characters the model uses).
WhiteSpace == {" ", "\t", "\n"}

UpperSet == {UpperChars[i] : i \in 1..Len(UpperChars)}

LowerSet == {LowerChars[i] : i \in 1..Len(LowerChars)}

LowerOf ==
    [c \in UpperSet |-> LowerChars[CHOOSE i \in 1..Len(UpperChars) : UpperChars[i] = c]]

UpperOf ==
    [c \in LowerSet |-> UpperChars[CHOOSE i \in 1..Len(LowerChars) : LowerChars[i] = c]]

LowerChar(c) == IF c \in UpperSet THEN LowerOf[c] ELSE c

UpperChar(c) == IF c \in LowerSet THEN UpperOf[c] ELSE c

\* A mutant of toLowerCase(): the string as it is.
ToLowerCaseKept(s) == s

\* String.prototype.toLowerCase()
ToLowerCase(s) == [i \in 1..Len(s) |-> LowerChar(s[i])]

\* String.prototype.toUpperCase()
ToUpperCase(s) == [i \in 1..Len(s) |-> UpperChar(s[i])]

RECURSIVE TrimStart(_)
TrimStart(s) ==
    IF s # <<>> /\ Head(s) \in WhiteSpace THEN TrimStart(Tail(s)) ELSE s

RECURSIVE TrimEnd(_)
TrimEnd(s) ==
    IF s # <<>> /\ s[Len(s)] \in WhiteSpace
    THEN TrimEnd(SubSeq(s, 1, Len(s) - 1))
    ELSE s

\* String.prototype.trim()
Trim(s) == TrimEnd(TrimStart(s))

\* JavaScript truthiness of a string-or-null value: null and "" are falsy.
Truthy(s) == s # Null /\ s # <<>>

\* a || b
OrElse(a, b) == IF Truthy(a) THEN a ELSE b

(***************************************************************************)
(* Status policy (feed screen)                                             *)
(***************************************************************************)

StrOpen == <<"o","p","e","n">>

StrResolved == <<"r","e","s","o","l","v","e","d">>

StrNeedsFollowup == <<"n","e","e","d","s","_","f","o","l","l","o","w","u","p">>

StrClosed == <<"c","l","o","s","e","d">>

\* A mutant of normStatus that forgets trim().
NormStatusNoTrim(status) == ToLowerCase(OrElse(status, StrOpen))

normStatus(status) == ToLowerCase(Trim(OrElse(status, StrOpen)))

isResolvedStatus(status) == normStatus(status) = StrResolved

isFollowupStatus(status) == normStatus(status) = StrNeedsFollowup

\* isResolvedStatus of the second feed screen: trim, lower case, "resolved".
isResolvedStatusFeed2(status) == ToLowerCase(Trim(OrElse(status, StrOpen))) = StrResolved

\* isResolvedStatus of the first feed screen: no trim, and "closed" counts.
isResolvedStatusPage(status) ==
    LET s == ToLowerCase(OrElse(status, StrOpen))
    IN  s = StrResolved \/ s = StrClosed

\* The StatusPill component: the two flags it computes and the label it renders.
StatusPill(status) ==
    LET s == normStatus(status)
        resolved == s = StrResolved
        followup == s = StrNeedsFollowup
    IN  [resolved |-> resolved,
         followup |-> followup,
         label    |-> IF resolved THEN "RESOLVED"
                      ELSE IF followup THEN "FOLLOW-UP" ELSE "OPEN"]

(***************************************************************************)
(* Raw status inputs: a base word, typed in some letter case, with white   *)
(* space around it; or null.                                               *)
(***************************************************************************)

MaxPad == 1

RECURSIVE SeqsUpTo(_, _)
SeqsUpTo(S, n) ==
    IF n = 0 THEN {<<>>}
    ELSE LET shorter == SeqsUpTo(S, n - 1)
         IN  shorter \cup {Append(q, x) : q \in shorter, x \in S}

Pads == SeqsUpTo({" ", "\t"}, MaxPad)

BaseWords ==
    {<<>>, StrOpen, StrResolved, StrNeedsFollowup, StrClosed, <<"b","o","g","u","s">>,
     <<"r","e"," ","s","o","l","v","e","d">>,
     <<"r","e","s","o","l","v","e">>,
     <<"n","e","e","d","s","-","f","o","l","l","o","w","u","p">>}

Casings == {"lower", "upper", "capitalized"}

ApplyCasing(w, casing) ==
    IF casing = "upper" THEN ToUpperCase(w)
    ELSE IF casing = "capitalized" /\ w # <<>>
         THEN <<UpperChar(Head(w))>> \o Tail(w)
         ELSE w

RawParts ==
    [base : BaseWords, casing : Casings, lead : Pads, trail : Pads]
        \cup {[base |-> Null, casing |-> "lower", lead |-> <<>>, trail |-> <<>>]}

BuildRaw(p) ==
    IF p.base = Null THEN Null
    ELSE p.lead \o ApplyCasing(p.base, p.casing) \o p.trail

NoPill == [resolved |-> FALSE, followup |-> FALSE, label |-> "none"]

\* The status pill is not under test: one fixed prop, nothing rendered.
StatusIdle ==
    /\ rawParts = [base |-> Null, casing |-> "lower", lead |-> <<>>, trail |-> <<>>]
    /\ rawStatus = Null
    /\ pill = NoPill

StatusInit ==
    /\ rawParts \in RawParts
    /\ rawStatus = BuildRaw(rawParts)
    /\ pill = NoPill

\* <StatusPill status={h.status} /> is rendered.
RenderStatusPill ==
    /\ pill = NoPill
    /\ pill' = StatusPill(rawStatus)
    /\ UNCHANGED <<rawStatus, rawParts>>

\* The component is re-rendered with another status prop.
NewStatusProp ==
    /\ pill # NoPill
    /\ \E p \in RawParts :
          /\ rawParts' = p
          /\ rawStatus' = BuildRaw(p)
    /\ pill' = NoPill

(***************************************************************************)
(* Backend tables and session                                              *)
(***************************************************************************)

\* No signed-in user (session?.user?.id is undefined).
NoUser == "<none>"

Users == {"u1", "u2"}

\* A null message (errorMsg, toast).
NoMsg == "<null>"

\* error.message of a failed backend call, passed through verbatim.
BackendError == "backend error"

\* last_update_at: null
NullTime == -1

MaxTime == 2

MaxHandoffs == 3

Times == 1..MaxTime

\* The status values this repository's writes store: "open" (the create flow)
\* and "resolved" (markResolved).
StoredStatuses == <<StrOpen, StrResolved>>

\* The handoffs rows with id i: a row is never updated before it is created.
HandoffRows(i) ==
    {[id |-> i, created_at |-> c, last_update_at |-> u,
      status |-> StoredStatuses[k]] :
        c \in Times, u \in {NullTime} \cup Times, k \in 1..Len(StoredStatuses)}

\* Ids are opaque: tables that differ only in which row carries which id are
\* the same table, so rows are numbered in the order of RowRank.
RowRank(r) ==
    LET k == CHOOSE i \in 1..Len(StoredStatuses) : StoredStatuses[i] = r.status
    IN  (r.created_at * (MaxTime + 2) + (r.last_update_at + 1)) * Len(StoredStatuses) + k

\* The handoffs tables of n rows.
RECURSIVE HandoffTables(_)
HandoffTables(n) ==
    IF n = 0 THEN {<<>>}
    ELSE {Append(t, r) :
            t \in HandoffTables(n - 1),
            r \in {x \in HandoffRows(n) :
                     x.last_update_at # NullTime => x.last_update_at >= x.created_at}}

WellFormedTable(t) ==
    \A i \in 1..(Len(t) - 1) : RowRank(t[i]) <= RowRank(t[i + 1])

\* What the profiles query of the feed answers: display_name and shift of the
\* user's row; NoProfile when the user has none (maybeSingle() gives null).
NoProfile == [display_name |-> Null, shift |-> Null]

Profiles ==
    {NoProfile, [display_name |-> <<"K","M">>, shift |-> <<"A","M">>]}

StrCS == <<"C","S">>

\* The profiles table holding p for user uid and nothing else.
ProfileTable(uid, p) ==
    IF p = NoProfile THEN <<>>
    ELSE <<[user_id |-> uid, display_name |-> p.display_name, role |-> StrCS,
            shift |-> p.shift]>>

\* .eq("user_id", uid)
ProfileRowsOf(rows, uid) == {i \in 1..Len(rows) : rows[i].user_id = uid}

\* .maybeSingle() answers an error when more than one row matches.
ProfileQueryFails(rows, uid) == Cardinality(ProfileRowsOf(rows, uid)) > 1

\* from("profiles").select("display_name, shift").eq("user_id", uid).maybeSingle()
ProfileOf(rows, uid) ==
    IF ProfileRowsOf(rows, uid) = {} THEN NoProfile
    ELSE LET r == rows[CHOOSE i \in ProfileRowsOf(rows, uid) : TRUE]
         IN  [display_name |-> r.display_name, shift |-> r.shift]

DbIdle ==
    /\ dbHandoffs = <<>>
    /\ dbProfiles = <<>>

(***************************************************************************)
(* Feed ordering policy                                                    *)
(***************************************************************************)

\* a.last_update_at ?? a.created_at, as new Date(..).getTime()
EffectiveTime(h) ==
    IF h.last_update_at # NullTime THEN h.last_update_at ELSE h.created_at

\* A mutant of the comparator: oldest first inside a group.
CompareOldestFirst(a, b) ==
    LET ar == isResolvedStatus(a.status)
        br == isResolvedStatus(b.status)
    IN  IF ar # br THEN (IF ar THEN 1 ELSE -1)
        ELSE EffectiveTime(a) - EffectiveTime(b)

\* The comparator handed to sort(): negative when a goes before b.
CompareHandoffs(a, b) ==
    LET ar == isResolvedStatus(a.status)
        br == isResolvedStatus(b.status)
    IN  IF ar # br THEN (IF ar THEN 1 ELSE -1)
        ELSE EffectiveTime(b) - EffectiveTime(a)

\* A mutant of the sort: an unstable insertion, which puts an element before
\* the elements it compares equal to.
InsertUnstable(sorted, x) ==
    LET before == {i \in 1..Len(sorted) : CompareHandoffs(sorted[i], x) < 0}
        k == IF before = {} THEN 0
             ELSE CHOOSE i \in before : \A j \in before : j <= i
    IN  SubSeq(sorted, 1, k) \o <<x>> \o SubSeq(sorted, k + 1, Len(sorted))

\* Array.prototype.sort is stable: x goes after every element that does not
\* compare greater than it.
InsertStable(sorted, x) ==
    LET notAfter == {i \in 1..Len(sorted) : CompareHandoffs(sorted[i], x) <= 0}
        k == IF notAfter = {} THEN 0
             ELSE CHOOSE i \in notAfter : \A j \in notAfter : j <= i
    IN  SubSeq(sorted, 1, k) \o <<x>> \o SubSeq(sorted, k + 1, Len(sorted))

\* [...handoffs].sort(compare)
RECURSIVE SortHandoffs(_)
SortHandoffs(list) ==
    IF list = <<>> THEN <<>>
    ELSE InsertStable(SortHandoffs(SubSeq(list, 1, Len(list) - 1)),
                      list[Len(list)])

\* A mutant of the filter: it keeps the resolved rows.
FilterKeepResolved(list) == SelectSeq(list, LAMBDA h : isResolvedStatus(h.status))

\* sorted.filter((h) => !isResolvedStatus(h.status))
FilterUnresolved(list) == SelectSeq(list, LAMBDA h : ~isResolvedStatus(h.status))

\* The visibleHandoffs memo.
visibleHandoffs ==
    LET sorted == SortHandoffs(feedHandoffs)
    IN  IF showResolved THEN sorted ELSE FilterUnresolved(sorted)

(***************************************************************************)
(* Feed screen                                                             *)
(***************************************************************************)

\* .order("last_update_at", {ascending: false, nullsFirst: false})
\* .order("created_at", {ascending: false}): r may not come after q.
BackendBefore(r, q) ==
    \/ r.last_update_at # NullTime /\ q.last_update_at = NullTime
    \/ r.last_update_at # NullTime /\ q.last_update_at # NullTime
          /\ r.last_update_at > q.last_update_at
    \/ r.last_update_at = q.last_update_at /\ r.created_at > q.created_at

\* The row sequences the handoffs query may answer with: every row once, in the
\* backend's order; rows the order does not separate come in any order.
RECURSIVE OrderedResults(_, _)
OrderedResults(table, ids) ==
    IF ids = {} THEN {<<>>}
    ELSE LET first == {i \in ids : \A j \in ids : ~BackendBefore(table[j], table[i])}
         IN  UNION {{<<table[i]>> \o rest : rest \in OrderedResults(table, ids \ {i})} :
                        i \in first}

HandoffsQueryResults(table) == OrderedResults(table, 1..Len(table))

\* The screen as useState() creates it on mount.
FeedMounted ==
    /\ feedUserId = NoUser
    /\ feedLoading = TRUE
    /\ feedError = NoMsg
    /\ feedHandoffs = <<>>
    /\ showResolved = FALSE
    /\ feedRoute = "feed"

FeedIdle == FeedMounted /\ session = NoUser

FeedInit ==
    /\ FeedMounted
    /\ session = "u1"

FeedDbInit ==
    /\ \E n \in 0..MaxHandoffs :
          /\ dbHandoffs \in HandoffTables(n)
          /\ WellFormedTable(dbHandoffs)
    /\ \E p \in Profiles : dbProfiles = ProfileTable("u1", p)

\* loadSessionAndFeed(), run on mount, on focus, on an auth change and on every
\* realtime notification.  failing names the backend call that answers with an
\* error ("none" when all answer), data is what the handoffs query answers.
loadSessionAndFeed(failing, data) ==
    /\ feedRoute = "feed"
    /\ IF failing = "session" THEN
          /\ feedError' = BackendError
          /\ feedLoading' = FALSE
          /\ UNCHANGED <<feedUserId, feedHandoffs, feedRoute>>
       ELSE IF session = NoUser THEN
          /\ feedError' = NoMsg
          /\ feedUserId' = NoUser
          /\ feedHandoffs' = <<>>
          /\ feedLoading' = FALSE
          /\ UNCHANGED feedRoute
       ELSE IF failing = "profile" \/ ProfileQueryFails(dbProfiles, session) THEN
          /\ feedError' = BackendError
          /\ feedUserId' = session
          /\ feedLoading' = FALSE
          /\ UNCHANGED <<feedHandoffs, feedRoute>>
       ELSE IF LET prof == ProfileOf(dbProfiles, session)
                   dn == Trim(OrElse(prof.display_name, <<>>))
                   sh == Trim(OrElse(prof.shift, <<>>))
               IN  dn = <<>> \/ sh = <<>> THEN
          /\ feedError' = NoMsg
          /\ feedUserId' = session
          /\ feedLoading' = FALSE
          /\ feedRoute' = "onboarding"
          /\ UNCHANGED feedHandoffs
       ELSE IF failing = "handoffs" THEN
          /\ feedError' = BackendError
          /\ feedUserId' = session
          /\ feedLoading' = FALSE
          /\ UNCHANGED <<feedHandoffs, feedRoute>>
       ELSE
          /\ feedError' = NoMsg
          /\ feedUserId' = session
          /\ feedHandoffs' = data
          /\ feedLoading' = FALSE
          /\ UNCHANGED feedRoute
    /\ UNCHANGED <<session, showResolved>>

LoadFeed ==
    \/ \E failing \in {"session", "profile", "handoffs"} :
          loadSessionAndFeed(failing, <<>>)
    \/ \E data \in HandoffsQueryResults(dbHandoffs) :
          loadSessionAndFeed("none", data)

\* onClick={() => setShowResolved((v) => !v)}
ToggleShowResolved ==
    /\ feedRoute = "feed"
    /\ showResolved' = ~showResolved
    /\ UNCHANGED <<session, feedUserId, feedLoading, feedError, feedHandoffs,
                   feedRoute>>

\* The user navigates back to "/": the screen is mounted afresh.
RemountFeed ==
    /\ feedRoute # "feed"
    /\ feedUserId' = NoUser
    /\ feedLoading' = TRUE
    /\ feedError' = NoMsg
    /\ feedHandoffs' = <<>>
    /\ showResolved' = FALSE
    /\ feedRoute' = "feed"
    /\ UNCHANGED session

(***************************************************************************)
(* Backend: handoff_updates, and the access-control policy on handoffs     *)
(***************************************************************************)

MaxUpdates == 2

\* user.email of a signed-in user.
Email(u) == IF u = "u1" THEN <<"k","m","@","x">> ELSE <<"m","a","@","x">>

StrSms == <<"s","m","s">>

\* The rows of handoff_updates before the scenarios start.
SeedUpdates ==
    <<[id |-> 1, created_at |-> 1, handoff_id |-> 2, author_user_id |-> NoUser,
       author_display_name_snapshot |-> StrSms, source |-> "sms",
       message |-> <<"o","k">>]>>

\* created_at the backend gives the next handoff_updates row: its clock has
\* moved on since the newest row was stored.
NextUpdateTime(updates) ==
    IF updates = <<>> THEN 1 ELSE updates[Len(updates)].created_at + 1

\* A mutant of the insert: the newest row is written over.
InsertUpdateOverLast(updates, payload, t) ==
    [i \in 1..Len(updates) |->
        IF i < Len(updates) THEN updates[i]
        ELSE [id |-> i,
              created_at |-> t,
              handoff_id |-> payload.handoff_id,
              author_user_id |-> payload.author_user_id,
              author_display_name_snapshot |-> payload.author_display_name_snapshot,
              source |-> payload.source,
              message |-> payload.message]]

\* from("handoff_updates").insert(payload): the backend assigns id and created_at.
InsertUpdate(updates, payload, t) ==
    Append(updates,
           [id |-> Len(updates) + 1,
            created_at |-> t,
            handoff_id |-> payload.handoff_id,
            author_user_id |-> payload.author_user_id,
            author_display_name_snapshot |-> payload.author_display_name_snapshot,
            source |-> payload.source,
            message |-> payload.message])

\* from("handoff_updates").select(..).eq("handoff_id", id)
\*   .order("created_at", {ascending: false}): rows of one instant in any order.
RECURSIVE NewestFirst(_, _)
NewestFirst(updates, ids) ==
    IF ids = {} THEN {<<>>}
    ELSE LET first == {i \in ids : \A j \in ids : updates[j].created_at <= updates[i].created_at}
         IN  UNION {{<<updates[i]>> \o rest : rest \in NewestFirst(updates, ids \ {i})} :
                        i \in first}

UpdatesQueryResults(updates, id) ==
    NewestFirst(updates, {i \in 1..Len(updates) : updates[i].handoff_id = id})

\* A mutant of the update: the .eq("id", ..) filter is missing.
ResolveUpdateAllRows(table, id, now) ==
    [i \in 1..Len(table) |->
        [table[i] EXCEPT !.status = StrResolved, !.last_update_at = now]]

\* from("handoffs").update({status: "resolved", last_update_at: now}).eq("id", id)
ResolveUpdate(table, id, now) ==
    [i \in 1..Len(table) |->
        IF table[i].id = id
        THEN [table[i] EXCEPT !.status = StrResolved, !.last_update_at = now]
        ELSE table[i]]

\* .select("id, status, last_update_at"): the rows the update wrote.
UpdateReturning(table, id) == SelectSeq(table, LAMBDA r : r.id = id)

(***************************************************************************)
(* Detail screen                                                           *)
(***************************************************************************)

\* The detail screens that are open (browser tabs of one signed-in browser).
Screens == {"tabA", "tabB"}

\* handoff state: null
NoRow == [id |-> 0, created_at |-> NullTime, last_update_at |-> NullTime, status |-> Null]

\* No request in flight.
NoPayload ==
    [handoff_id |-> 0, author_user_id |-> NoUser,
     author_display_name_snapshot |-> Null, source |-> "none", message |-> <<>>]

NoResolve == [id |-> 0, now |-> NullTime]

NotSignedIn == "Not signed in."

ZeroRowsUpdated ==
    "0 rows updated. RLS is blocking UPDATE on handoffs. Fix Supabase policy for UPDATE."

ToastUpdateAdded == "Update added."

ToastMarkedResolved == "Marked resolved."

\* What the user may type into the textarea.
Texts == {<<>>, <<" ","o","k"," ">>}

\* isResolvedStatus of the detail screen.
isResolvedStatusDetail(status) ==
    ToLowerCase(Trim(OrElse(status, StrOpen))) = StrResolved

canAddUpdate(s) == Len(Trim(newUpdate[s])) >= 2 /\ ~savingUpdate[s]

\* A mutant of resolvedNow: the button is never disabled for a resolved handoff.
ResolvedNowNever(s) == FALSE

resolvedNow(s) == isResolvedStatusDetail(dHandoff[s].status)

\* {!loading && handoff && (...)}: the buttons and the textarea are rendered.
DetailRendered(s) == ~dLoading[s] /\ dHandoff[s] # NoRow

\* A mutant of the payload: the message is not trimmed.
UpdatePayloadUntrimmed(id, user, text) ==
    [handoff_id |-> id,
     author_user_id |-> user,
     author_display_name_snapshot |-> Email(user),
     source |-> "app",
     message |-> text]

\* The payload addUpdate() builds.
UpdatePayload(id, user, text) ==
    [handoff_id |-> id,
     author_user_id |-> user,
     author_display_name_snapshot |-> Email(user),
     source |-> "app",
     message |-> Trim(text)]

\* A mutant of the catch block: the error is swallowed.
CaughtMessageSwallowed(message) == NoMsg

\* catch (e) { setErrorMsg(e?.message ?? "Failed ...") }
CaughtMessage(message) == message

\* const [smsSending, setSmsSending] = useState(false); no fetch in flight.
NoSms == [smsSending |-> FALSE, req |-> [route |-> "none"]]

DetailMounted ==
    /\ dLoading = [s \in Screens |-> TRUE]
    /\ dError = [s \in Screens |-> NoMsg]
    /\ dHandoff = [s \in Screens |-> NoRow]
    /\ dUpdates = [s \in Screens |-> <<>>]
    /\ newUpdate = [s \in Screens |-> <<>>]
    /\ savingUpdate = [s \in Screens |-> FALSE]
    /\ resolving = [s \in Screens |-> FALSE]
    /\ toast = [s \in Screens |-> NoMsg]
    /\ dAdd = [s \in Screens |-> NoPayload]
    /\ dRes = [s \in Screens |-> NoResolve]
    /\ dRoute = [s \in Screens |-> "detail"]
    /\ dSms = [s \in Screens |-> NoSms]

\* No detail screen is open.
DetailClosed ==
    /\ DetailMounted
    /\ dId = [s \in Screens |-> 0]
    /\ dLoads = [s \in Screens |-> {}]

DetailIdle ==
    /\ DetailClosed
    /\ dbUpdates = <<>>
    /\ updatePolicy = TRUE

\* Both screens are mounted and their first load() is in flight.
DetailInit ==
    /\ DetailMounted
    /\ \E other \in 1..2 : dId = [s \in Screens |-> IF s = "tabA" THEN 1 ELSE other]
    /\ dLoads = [s \in Screens |-> {"mount"}]
    /\ dbUpdates = SeedUpdates
    /\ updatePolicy \in BOOLEAN

DetailDbInit ==
    /\ \E st \in {StrOpen, StrResolved} :
          dbHandoffs =
             <<[id |-> 1, created_at |-> 1,
                last_update_at |-> IF st = StrResolved THEN 1 ELSE NullTime,
                status |-> st],
               [id |-> 2, created_at |-> 1, last_update_at |-> NullTime,
                status |-> StrOpen]>>
    /\ dbProfiles = <<>>

\* A mutant of load(): the call is dropped.
StartLoadDropped(s, caller) ==
    UNCHANGED <<dLoading, dError, dLoads>>

\* load() is called: what it does before its first await.
StartLoad(s, caller) ==
    /\ dLoading' = [dLoading EXCEPT ![s] = TRUE]
    /\ dError' = [dError EXCEPT ![s] = NoMsg]
    /\ dLoads' = [dLoads EXCEPT ![s] = @ \cup {caller}]

\* The rest of load(), once its requests are answered, and the finally block of
\* the function that awaited it.  failing says whether a select answers with an
\* error; h and u are the rows the two selects read.
load(s, caller, failing, u) ==
    /\ caller \in dLoads[s]
    /\ dLoads' = [dLoads EXCEPT ![s] = @ \ {caller}]
    /\ dLoading' = [dLoading EXCEPT ![s] = FALSE]
    /\ IF session = NoUser THEN
          /\ dError' = [dError EXCEPT ![s] = NotSignedIn]
          /\ UNCHANGED <<dHandoff, dUpdates>>
       ELSE IF failing \/ ~(dId[s] \in 1..Len(dbHandoffs)) THEN
          /\ dError' = [dError EXCEPT ![s] = BackendError]
          /\ UNCHANGED <<dHandoff, dUpdates>>
       ELSE
          /\ dHandoff' = [dHandoff EXCEPT ![s] = dbHandoffs[dId[s]]]
          /\ dUpdates' = [dUpdates EXCEPT ![s] = u]
          /\ UNCHANGED dError
    /\ savingUpdate' = IF caller = "addUpdate"
                       THEN [savingUpdate EXCEPT ![s] = FALSE] ELSE savingUpdate
    /\ resolving' = IF caller = "markResolved"
                    THEN [resolving EXCEPT ![s] = FALSE] ELSE resolving
    /\ UNCHANGED <<dRoute, dSms, session, dbHandoffs, dbUpdates, updatePolicy, dId, newUpdate,
                   toast, dAdd, dRes>>

LoadDetail(s) ==
    \E caller \in dLoads[s] :
        \/ load(s, caller, TRUE, <<>>)
        \/ \E u \in UpdatesQueryResults(dbUpdates, dId[s]) : load(s, caller, FALSE, u)

\* onChange={(e) => setNewUpdate(e.target.value)}
TypeUpdate(s) ==
    /\ DetailRendered(s)
    /\ \E text \in Texts :
          /\ text # newUpdate[s]
          /\ newUpdate' = [newUpdate EXCEPT ![s] = text]
    /\ UNCHANGED <<dRoute, dSms, session, dbHandoffs, dbUpdates, updatePolicy, dId, dLoading,
                   dError, dHandoff, dUpdates, savingUpdate, resolving, toast,
                   dLoads, dAdd, dRes>>

\* addUpdate(), up to the insert request.
addUpdate(s) ==
    /\ DetailRendered(s)
    /\ canAddUpdate(s)
    /\ Len(dbUpdates) + Cardinality({x \in Screens : dAdd[x] # NoPayload}) < MaxUpdates
    /\ toast' = [toast EXCEPT ![s] = NoMsg]
    /\ IF session = NoUser THEN
          /\ dError' = [dError EXCEPT ![s] = NotSignedIn]
          /\ UNCHANGED <<savingUpdate, dAdd>>
       ELSE
          /\ dError' = [dError EXCEPT ![s] = NoMsg]
          /\ savingUpdate' = [savingUpdate EXCEPT ![s] = TRUE]
          /\ dAdd' = [dAdd EXCEPT ![s] = UpdatePayload(dId[s], session, newUpdate[s])]
    /\ UNCHANGED <<dRoute, dSms, session, dbHandoffs, dbUpdates, updatePolicy, dId, dLoading,
                   dHandoff, dUpdates, newUpdate, resolving, dLoads, dRes>>

\* The insert is executed and answered: the rest of addUpdate() up to await load().
addUpdateAnswered(s, failing, t) ==
    /\ dAdd[s] # NoPayload
    /\ dAdd' = [dAdd EXCEPT ![s] = NoPayload]
    /\ IF failing THEN
          /\ dError' = [dError EXCEPT ![s] = CaughtMessage(BackendError)]
          /\ savingUpdate' = [savingUpdate EXCEPT ![s] = FALSE]
          /\ UNCHANGED <<dbUpdates, newUpdate, toast, dLoading, dLoads>>
       ELSE
          /\ dbUpdates' = InsertUpdate(dbUpdates, dAdd[s], t)
          /\ newUpdate' = [newUpdate EXCEPT ![s] = <<>>]
          /\ toast' = [toast EXCEPT ![s] = ToastUpdateAdded]
          /\ StartLoad(s, "addUpdate")
          /\ UNCHANGED savingUpdate
    /\ UNCHANGED <<dRoute, dSms, session, dbHandoffs, updatePolicy, dId, dHandoff, dUpdates,
                   resolving, dRes>>

AddUpdateAnswered(s) ==
    \/ addUpdateAnswered(s, TRUE, 1)
    \/ addUpdateAnswered(s, FALSE, NextUpdateTime(dbUpdates))

\* markResolved(), up to the update request.
markResolved(s, now) ==
    /\ DetailRendered(s)
    /\ ~(resolving[s] \/ resolvedNow(s))
    /\ toast' = [toast EXCEPT ![s] = NoMsg]
    /\ dError' = [dError EXCEPT ![s] = NoMsg]
    /\ resolving' = [resolving EXCEPT ![s] = TRUE]
    /\ dRes' = [dRes EXCEPT ![s] = [id |-> dHandoff[s].id, now |-> now]]
    /\ UNCHANGED <<dRoute, dSms, session, dbHandoffs, dbUpdates, updatePolicy, dId, dLoading,
                   dHandoff, dUpdates, newUpdate, savingUpdate, dLoads, dAdd>>

\* The clock of the browser at the click: the earliest or the latest time.
MarkResolved(s) == \E now \in {1, MaxTime} : markResolved(s, now)

\* The update is executed and answered: the rest of markResolved() up to
\* await load().  With the policy not admitting the write the backend changes
\* nothing and answers with no rows and no error.
markResolvedAnswered(s, failing) ==
    /\ dRes[s] # NoResolve
    /\ dRes' = [dRes EXCEPT ![s] = NoResolve]
    /\ LET written == IF updatePolicy
                      THEN ResolveUpdate(dbHandoffs, dRes[s].id, dRes[s].now)
                      ELSE dbHandoffs
           data == IF updatePolicy THEN UpdateReturning(written, dRes[s].id) ELSE <<>>
       IN  IF failing THEN
              /\ dError' = [dError EXCEPT ![s] = CaughtMessage(BackendError)]
              /\ resolving' = [resolving EXCEPT ![s] = FALSE]
              /\ UNCHANGED <<dbHandoffs, dHandoff, toast, dLoading, dLoads>>
           ELSE IF Len(data) = 0 THEN
              /\ dError' = [dError EXCEPT ![s] = CaughtMessage(ZeroRowsUpdated)]
              /\ resolving' = [resolving EXCEPT ![s] = FALSE]
              /\ UNCHANGED <<dbHandoffs, dHandoff, toast, dLoading, dLoads>>
           ELSE
              /\ dbHandoffs' = written
              /\ dHandoff' =
                    [dHandoff EXCEPT ![s] =
                        IF @ # NoRow
                        THEN [@ EXCEPT !.status = data[1].status,
                                       !.last_update_at = data[1].last_update_at]
                        ELSE @]
              /\ toast' = [toast EXCEPT ![s] = ToastMarkedResolved]
              /\ StartLoad(s, "markResolved")
              /\ UNCHANGED resolving
    /\ UNCHANGED <<dRoute, dSms, session, dbUpdates, updatePolicy, dId, dUpdates, newUpdate,
                   savingUpdate, dAdd>>

MarkResolvedAnswered(s) == \E failing \in BOOLEAN : markResolvedAnswered(s, failing)

\* The session ends (sign-out in another tab, or expiry).
SessionEnds ==
    /\ session # NoUser
    /\ session' = NoUser
    /\ UNCHANGED <<dRoute, dSms, dbHandoffs, dbUpdates, updatePolicy, dId, dLoading, dError,
                   dHandoff, dUpdates, newUpdate, savingUpdate, resolving, toast,
                   dLoads, dAdd, dRes>>

(***************************************************************************)
(* SMS relay endpoints: /api/sms/alert (handoff named by id) and the       *)
(* inbound reply route (handoff named by an H:<token> in the message)      *)
(***************************************************************************)

DigitSet == {"0","1","2","3","4","5","6","7","8","9"}

\* [A-Za-z0-9]
AlnumSet == UpperSet \cup LowerSet \cup DigitSet

IsAlnum(c) == c \in AlnumSet

\* \w
IsWord(c) == IsAlnum(c) \/ c = "_"

\* \b between body[i] and body[i+1]
WordBoundary(body, i) ==
    (i >= 1 /\ IsWord(body[i])) # (i < Len(body) /\ IsWord(body[i + 1]))

\* {4,12}
TokenMinLen == 4

TokenMaxLen == 12

\* A mutant of the pattern: the quantifier is {1,12} instead of {4,12}.
TokenLensFromOne(body, i) ==
    {n \in 1..TokenMaxLen :
        /\ i + 1 + n <= Len(body)
        /\ \A k \in (i + 2)..(i + 1 + n) : IsAlnum(body[k])
        /\ WordBoundary(body, i + 1 + n)}

\* The lengths n for which H:([A-Za-z0-9]{n})\b matches with the H at body[i].
TokenLensAt(body, i) ==
    {n \in TokenMinLen..TokenMaxLen :
        /\ i + 1 + n <= Len(body)
        /\ \A k \in (i + 2)..(i + 1 + n) : IsAlnum(body[k])
        /\ WordBoundary(body, i + 1 + n)}

\* /\bH:([A-Za-z0-9]{4,12})\b/ matches with the H at body[i].
MatchesAt(body, i) ==
    /\ i + 1 <= Len(body)
    /\ body[i] = "H"
    /\ body[i + 1] = ":"
    /\ WordBoundary(body, i - 1)
    /\ TokenLensAt(body, i) # {}

\* The longest of the lengths that match at i: the quantifier is greedy.
GreedyLenAt(body, i) ==
    CHOOSE m \in TokenLensAt(body, i) : \A k \in TokenLensAt(body, i) : k <= m

\* The leftmost match from position i on; m[1] of it, or null.
RECURSIVE MatchFrom(_, _)
MatchFrom(body, i) ==
    IF i > Len(body) THEN Null
    ELSE IF MatchesAt(body, i)
         THEN SubSeq(body, i + 2, i + 1 + GreedyLenAt(body, i))
         ELSE MatchFrom(body, i + 1)

\* const m = body.match(..); return m ? m[1] : null
extractToken(body) == MatchFrom(body, 1)

\* Table handoff_tokens(token, handoff_id).
HandoffTokens ==
    {[token |-> <<"A","B","1","2">>, handoff_id |-> 1],
     [token |-> <<"a","b","c","d","e","f","g","h","1","2","3","4">>, handoff_id |-> 2]}

\* from("handoff_tokens").select("handoff_id").eq("token", token)
TokenRows(token) == {r \in HandoffTokens : r.token = token}

\* SMS_WEBHOOK_SECRET, when it is set, and another header value.
TheSecret == <<"s","3","c">>

WrongSecret == <<"s","3","x">>

Sender == <<"+","1","5">>

StrSmsColon == <<"s","m","s",":">>

\* A mutant of the snapshot: the sender is left out.
SmsSnapshotBare(from) == StrSms

\* from ? `sms:${from}` : "sms"
SmsSnapshot(from) == IF Truthy(from) THEN StrSmsColon \o from ELSE StrSms

Unauthorized == "Unauthorized"

FieldsRequired == "handoff_id and message are required"

MissingToken == "Missing token. Include e.g. H:ABC123 in reply."

UnknownToken == "Unknown token."

ServerError == "Server error"

\* The answers: NextResponse.json(body, {status}).
Reply(status, body) == [status |-> status, body |-> body]

ReplyOk == Reply(200, "ok")

NoReply == Reply(0, "none")

\* payload.handoff_id || payload.handoffId, ids being 0 when missing or empty.
OrElseId(a, b) == IF a # 0 THEN a ELSE b

\* Requests to /api/sms/alert: the header, the payload under either naming of
\* its fields, and whether the backend fails the insert.
AlertMessages == {Null, <<" ","o","k">>, <<" ">>}

AlertRequests ==
    {[route |-> "alert", secret |-> sec, malformed |-> FALSE, naming |-> nm,
      handoff_id |-> IF nm = "snake" THEN hid ELSE 0,
      handoffId |-> IF nm = "snake" THEN 0 ELSE hid,
      from |-> IF nm = "snake" THEN fr ELSE Null,
      From |-> IF nm = "snake" THEN Null ELSE fr,
      message |-> IF nm = "snake" THEN msg ELSE Null,
      Body |-> IF nm = "snake" THEN Null ELSE msg,
      failing |-> "none"] :
        sec \in {Null, TheSecret, WrongSecret}, nm \in {"snake", "twilio"},
        hid \in {0, 2}, fr \in {Null, Sender}, msg \in AlertMessages}
    \cup
    {[route |-> "alert", secret |-> sec, malformed |-> FALSE, naming |-> nm,
      handoff_id |-> IF nm = "snake" THEN 2 ELSE 0,
      handoffId |-> IF nm = "snake" THEN 0 ELSE 2,
      from |-> IF nm = "snake" THEN Sender ELSE Null,
      From |-> IF nm = "snake" THEN Null ELSE Sender,
      message |-> IF nm = "snake" THEN <<" ","o","k">> ELSE Null,
      Body |-> IF nm = "snake" THEN Null ELSE <<" ","o","k">>,
      failing |-> "insert"] :
        sec \in {Null, TheSecret}, nm \in {"snake", "twilio"}}
    \cup
    {[route |-> "alert", secret |-> sec, malformed |-> TRUE, naming |-> "snake",
      handoff_id |-> 0, handoffId |-> 0, from |-> Null, From |-> Null,
      message |-> Null, Body |-> Null, failing |-> "none"] :
        sec \in {Null, TheSecret}}

\* Message bodies of inbound replies.
ReplyBodies ==
    {Null,
     <<"o","k">>,
     <<" ","o","k"," ","H",":","A","B","1","2"," ">>,
     <<"H",":","A","B","1","2",".">>,
     <<"H",":","A","B","1">>,
     <<"H",":","a","b","c","d","e","f","g","h","1","2","3","4">>,
     <<"H",":","a","b","c","d","e","f","g","h","1","2","3","4","5">>,
     <<"H",":","Z","Z","9","9">>,
     <<"H",":","a","b","1","2">>,
     <<"x","H",":","A","B","1","2">>,
     <<"H",":","A","B","1","2","_">>,
     <<"h",":","A","B","1","2">>,
     <<"H",":","A","B","1",",","H",":","A","B","1","2">>,
     <<"H",":","Z","Z","9","9"," ","H",":","A","B","1","2">>}

\* The bodies sent as JSON too.
ReplyJsonBodies ==
    {Null,
     <<" ","o","k"," ","H",":","A","B","1","2"," ">>,
     <<"H",":","Z","Z","9","9">>}

\* Requests to the reply route: form-encoded (Body, From) or JSON (message,
\* from), the x-webhook-secret header a sender may add, and whether the backend
\* fails the lookup or the insert.
ReplyRequests ==
    {[route |-> "reply", secret |-> Null, contentType |-> "form", malformed |-> FALSE,
      message |-> msg, from |-> fr, failing |-> "none"] :
        msg \in ReplyBodies, fr \in {Null, Sender}}
    \cup
    {[route |-> "reply", secret |-> Null, contentType |-> ct, malformed |-> FALSE,
      message |-> msg, from |-> Sender, failing |-> f] :
        ct \in {"form", "json"}, msg \in ReplyJsonBodies, f \in {"lookup", "insert"}}
    \cup
    {[route |-> "reply", secret |-> Null, contentType |-> "json", malformed |-> FALSE,
      message |-> msg, from |-> fr, failing |-> "none"] :
        msg \in ReplyJsonBodies, fr \in {Null, Sender}}
    \cup
    {[route |-> "reply", secret |-> sec, contentType |-> "form", malformed |-> FALSE,
      message |-> msg, from |-> Null, failing |-> "none"] :
        sec \in {TheSecret, WrongSecret}, msg \in ReplyJsonBodies}
    \cup
    {[route |-> "reply", secret |-> Null, contentType |-> "json", malformed |-> TRUE,
      message |-> Null, from |-> Null, failing |-> "none"]}

NoRequest == [route |-> "none"]

\* The row both routes insert.
SmsPayload(handoff_id, from, message) ==
    [handoff_id |-> handoff_id,
     author_user_id |-> NoUser,
     author_display_name_snapshot |-> SmsSnapshot(from),
     source |-> "sms",
     message |-> message]

RelayIdle ==
    /\ webhookSecret = Null
    /\ relayReq = NoRequest
    /\ relayReply = NoReply

RelayInit ==
    /\ webhookSecret \in {Null, TheSecret}
    /\ relayReq = NoRequest
    /\ relayReply = NoReply

\* if (webhookSecret) { if (!got || got !== webhookSecret) return 401 }
SecretRejects(got) ==
    Truthy(webhookSecret) /\ (~Truthy(got) \/ got # webhookSecret)

\* if (!handoff_id || !message)
AlertFieldsMissing(handoff_id, message) == handoff_id = 0 \/ ~Truthy(message)

\* POST of /api/sms/alert
smsAlertPOST(req) ==
    LET handoff_id == OrElseId(req.handoff_id, req.handoffId)
        from == OrElse(OrElse(req.from, req.From), Null)
        message == OrElse(req.message, req.Body)
    IN  /\ relayReq' = req
        /\ IF SecretRejects(req.secret) THEN
              /\ relayReply' = Reply(401, Unauthorized)
              /\ UNCHANGED dbUpdates
           ELSE IF req.malformed THEN
              /\ relayReply' = Reply(500, ServerError)
              /\ UNCHANGED dbUpdates
           ELSE IF AlertFieldsMissing(handoff_id, message) THEN
              /\ relayReply' = Reply(400, FieldsRequired)
              /\ UNCHANGED dbUpdates
           ELSE IF req.failing = "insert" THEN
              /\ relayReply' = Reply(400, BackendError)
              /\ UNCHANGED dbUpdates
           ELSE
              /\ dbUpdates' = InsertUpdate(dbUpdates,
                                           SmsPayload(handoff_id, from, Trim(message)),
                                           NextUpdateTime(dbUpdates))
              /\ relayReply' = ReplyOk
    /\ UNCHANGED webhookSecret

PostSmsAlert ==
    /\ Len(dbUpdates) < MaxUpdates
    /\ \E req \in AlertRequests : smsAlertPOST(req)

ToastSmsSent == "SMS sent."

\* A mutant of the request: it carries a message.
SmsAlertBodyWithMessage(h) ==
    [route |-> "alert", secret |-> Null, malformed |-> FALSE, naming |-> "snake",
     handoff_id |-> h.id, handoffId |-> 0, from |-> Null, From |-> Null,
     message |-> <<" ","o","k">>, Body |-> Null, failing |-> "none"]

\* The request sendSms() makes: a JSON body with handoff_id, summary, priority
\* and location_code, of which the handler reads handoff_id; no message, no
\* x-webhook-secret header.
SmsAlertBody(h) ==
    [route |-> "alert", secret |-> Null, malformed |-> FALSE, naming |-> "snake",
     handoff_id |-> h.id, handoffId |-> 0, from |-> Null, From |-> Null,
     message |-> Null, Body |-> Null, failing |-> "none"]

\* sendSms() up to the fetch it awaits.
sendSms(s) ==
    /\ DetailRendered(s)
    /\ ~dSms[s].smsSending
    /\ toast' = [toast EXCEPT ![s] = NoMsg]
    /\ dError' = [dError EXCEPT ![s] = NoMsg]
    /\ dSms' = [dSms EXCEPT ![s] = [smsSending |-> TRUE, req |-> SmsAlertBody(dHandoff[s])]]
    /\ UNCHANGED <<dRoute, session, dbHandoffs, dbUpdates, updatePolicy, dId, dLoading,
                   dHandoff, dUpdates, newUpdate, savingUpdate, resolving, dLoads,
                   dAdd, dRes, relayVars>>

\* The fetch settles: it rejects, or the handler answers; the rest of sendSms().
sendSmsAnswered(s, failing) ==
    /\ dSms[s].req.route = "alert"
    /\ dSms' = [dSms EXCEPT ![s] = NoSms]
    /\ IF failing THEN
          /\ dError' = [dError EXCEPT ![s] = CaughtMessage(BackendError)]
          /\ UNCHANGED <<toast, dbUpdates, relayVars>>
       ELSE
          /\ smsAlertPOST(dSms[s].req)
          /\ IF relayReply'.status = 200
             THEN /\ toast' = [toast EXCEPT ![s] = ToastSmsSent]
                  /\ UNCHANGED dError
             ELSE /\ dError' = [dError EXCEPT ![s] = CaughtMessage(relayReply'.body)]
                  /\ UNCHANGED toast
    /\ UNCHANGED <<dRoute, session, dbHandoffs, updatePolicy, dId, dLoading,
                   dHandoff, dUpdates, newUpdate, savingUpdate, resolving, dLoads,
                   dAdd, dRes>>

SendSmsAnswered(s) ==
    /\ Len(dbUpdates) < MaxUpdates
    /\ \E failing \in BOOLEAN : sendSmsAnswered(s, failing)

\* POST of the inbound reply route, from the token on.
smsReplyAnswer(req, message, token) ==
    LET from == OrElse(req.from, Null)
        rows == IF token = Null THEN {} ELSE TokenRows(token)
    IN  IF ~Truthy(token) THEN
           /\ relayReply' = Reply(400, MissingToken)
           /\ UNCHANGED dbUpdates
        ELSE IF req.failing = "lookup" \/ Cardinality(rows) # 1 THEN
           /\ relayReply' = Reply(404, UnknownToken)
           /\ UNCHANGED dbUpdates
        ELSE IF req.failing = "insert" THEN
           /\ relayReply' = Reply(400, BackendError)
           /\ UNCHANGED dbUpdates
        ELSE
           /\ dbUpdates' =
                 InsertUpdate(dbUpdates,
                              SmsPayload((CHOOSE r \in rows : TRUE).handoff_id,
                                         from, message),
                              NextUpdateTime(dbUpdates))
           /\ relayReply' = ReplyOk

\* POST of the inbound reply route
smsReplyPOST(req) ==
    /\ relayReq' = req
    /\ IF req.malformed THEN
          /\ relayReply' = Reply(500, ServerError)
          /\ UNCHANGED dbUpdates
       ELSE
          \E message \in {Trim(OrElse(req.message, <<>>))} :
             \E token \in {extractToken(message)} :
                smsReplyAnswer(req, message, token)
    /\ UNCHANGED webhookSecret

PostSmsReply ==
    /\ Len(dbUpdates) < MaxUpdates
    /\ \E req \in ReplyRequests : smsReplyPOST(req)

(***************************************************************************)
(* /api/sms/notify: the audit note of an alert for a high-priority handoff *)
(***************************************************************************)

StrHigh == <<"h","i","g","h">>

StrSystem == <<"s","y","s","t","e","m">>

\* "SYSTEM: SMS ALERT TRIGGERED (high)"
NotifyPrefix ==
    <<"S","Y","S","T","E","M",":"," ","S","M","S"," ","A","L","E","R","T"," ","T","R","I","G","G","E","R","E","D"," ","(","h","i","g","h",")">>

\* .slice(0, 120)
SummaryMax == 120

\* s.slice(0, n)
SliceTo(s, n) == IF Len(s) <= n THEN s ELSE SubSeq(s, 1, n)

Digits == <<"0","1","2","3","4","5","6","7","8","9">>

\* A summary of 125 characters, each telling its position modulo 10.
LongSummary == [i \in 1..125 |-> Digits[(i % 10) + 1]]

ShortSummary == <<"b","e","d"," ","4">>

LocationCode == <<"E","R">>

\* A mutant of the message: the summary is not cut.
NotifyMessageUncut(location_code, summary) ==
    NotifyPrefix
        \o (IF Truthy(location_code) THEN <<" ","[">> \o location_code \o <<"]">> ELSE <<>>)
        \o <<":"," ">>
        \o OrElse(summary, <<>>)

\* `SYSTEM: SMS ALERT TRIGGERED (high)${location_code ? ` [${location_code}]` : ""}:
\*  ${String(summary || "").slice(0, 120)}`
NotifyMessage(location_code, summary) ==
    NotifyPrefix
        \o (IF Truthy(location_code) THEN <<" ","[">> \o location_code \o <<"]">> ELSE <<>>)
        \o <<":"," ">>
        \o SliceTo(OrElse(summary, <<>>), SummaryMax)

NotifyPriorities ==
    {Null, StrHigh, <<"H","i","g","h">>, <<" ","h","i","g","h">>,
     <<"m","e","d","i","u","m">>, <<"l","o","w">>}

\* Requests to /api/sms/notify.
NotifyRequests ==
    {[route |-> "notify", secret |-> TheSecret, malformed |-> FALSE, handoff_id |-> 1,
      priority |-> pr, summary |-> sm, location_code |-> lc, failing |-> "none"] :
        pr \in NotifyPriorities, sm \in {Null, ShortSummary, LongSummary},
        lc \in {Null, LocationCode}}
    \cup
    {[route |-> "notify", secret |-> TheSecret, malformed |-> FALSE, handoff_id |-> 1,
      priority |-> StrHigh, summary |-> ShortSummary, location_code |-> LocationCode,
      failing |-> "insert"]}
    \cup
    {[route |-> "notify", secret |-> sec, malformed |-> FALSE, handoff_id |-> hid,
      priority |-> StrHigh, summary |-> ShortSummary, location_code |-> Null,
      failing |-> "none"] :
        sec \in {Null, TheSecret, WrongSecret}, hid \in {0, 1}}
    \cup
    {[route |-> "notify", secret |-> sec, malformed |-> FALSE, handoff_id |-> 1,
      priority |-> <<"m","e","d","i","u","m">>, summary |-> ShortSummary,
      location_code |-> Null, failing |-> "none"] :
        sec \in {Null, WrongSecret}}
    \cup
    {[route |-> "notify", secret |-> TheSecret, malformed |-> TRUE, handoff_id |-> 0,
      priority |-> Null, summary |-> Null, location_code |-> Null,
      failing |-> "none"]}

ReplySkipped == Reply(200, "ok skipped")

ReplyAlerted == Reply(200, "ok alerted")

PriorityRequired == "handoff_id and priority are required"

\* The row the notify route inserts.
SystemPayload(handoff_id, message) ==
    [handoff_id |-> handoff_id,
     author_user_id |-> NoUser,
     author_display_name_snapshot |-> StrSystem,
     source |-> "system",
     message |-> message]

\* POST of /api/sms/notify
smsNotifyPOST(req) ==
    /\ relayReq' = req
    /\ IF SecretRejects(req.secret) THEN
          /\ relayReply' = Reply(401, Unauthorized)
          /\ UNCHANGED dbUpdates
       ELSE IF req.malformed THEN
          /\ relayReply' = Reply(500, ServerError)
          /\ UNCHANGED dbUpdates
       ELSE IF req.handoff_id = 0 \/ ~Truthy(req.priority) THEN
          /\ relayReply' = Reply(400, PriorityRequired)
          /\ UNCHANGED dbUpdates
       ELSE IF ToLowerCase(req.priority) # StrHigh THEN
          /\ relayReply' = ReplySkipped
          /\ UNCHANGED dbUpdates
       ELSE IF req.failing = "insert" THEN
          /\ relayReply' = Reply(400, BackendError)
          /\ UNCHANGED dbUpdates
       ELSE
          /\ dbUpdates' =
                InsertUpdate(dbUpdates,
                             SystemPayload(req.handoff_id,
                                           NotifyMessage(req.location_code, req.summary)),
                             NextUpdateTime(dbUpdates))
          /\ relayReply' = ReplyAlerted
    /\ UNCHANGED webhookSecret

PostSmsNotify ==
    /\ Len(dbUpdates) < MaxUpdates
    /\ \E req \in NotifyRequests : smsNotifyPOST(req)

(***************************************************************************)
(* Feed screen, await by await: overlapping runs of loadSessionAndFeed()   *)
(* and the realtime channel                                                *)
(***************************************************************************)

\* Runs of loadSessionAndFeed() that may be in flight at once.
MaxLoads == 2

\* Writes other clients make while the feed is open.
MaxWrites == 2

LoadSlots == 1..MaxLoads

\* A run: the call it awaits, the uid constant, and what the backend answered
\* to its handoffs query and has not been delivered yet.
NoLoad == [pc |-> "idle", uid |-> NoUser, data |-> <<>>]

LiveIdle ==
    /\ fLoads = [l \in LoadSlots |-> NoLoad]
    /\ fNotes = 0

\* The first useEffect has called loadSessionAndFeed(): setErrorMsg(null) and
\* setLoading(true) leave the mounted state as it is, getSession() is awaited.
LiveInit ==
    /\ fLoads = [l \in LoadSlots |->
                    IF l = 1 THEN [NoLoad EXCEPT !.pc = "getSession"] ELSE NoLoad]
    /\ fNotes = 0

\* One handoff, open and never updated, and the profile of the signed-in user:
\* none, a complete one, or one whose display name is blank.
LiveDbInit ==
    /\ dbHandoffs = <<[id |-> 1, created_at |-> 1, last_update_at |-> NullTime,
                       status |-> StrOpen]>>
    /\ \E p \in Profiles \cup {[display_name |-> <<" ">>, shift |-> <<"A","M">>],
                               [display_name |-> <<"K","M">>, shift |-> <<>>]} :
          dbProfiles = ProfileTable("u1", p)

\* A mutant of the gate: only the display name is looked at.
GateBlocksNameOnly(prof) ==
    Trim(OrElse(prof.display_name, <<>>)) = <<>>

\* const dn = (prof?.display_name || "").trim(); const sh = (prof?.shift || "").trim();
\* if (!dn || !sh)
GateBlocks(prof) ==
    \/ Trim(OrElse(prof.display_name, <<>>)) = <<>>
    \/ Trim(OrElse(prof.shift, <<>>)) = <<>>

\* A state setter called by a run whose screen has been left does nothing.
FeedShown == feedRoute = "feed"

\* loadSessionAndFeed() up to its first await.
startLoadFeed(l) ==
    /\ FeedShown
    /\ fLoads[l].pc = "idle"
    /\ feedError' = NoMsg
    /\ feedLoading' = TRUE
    /\ fLoads' = [fLoads EXCEPT ![l] = [NoLoad EXCEPT !.pc = "getSession"]]
    /\ UNCHANGED <<session, feedUserId, feedHandoffs, showResolved, feedRoute>>

\* window "focus" / document "visibilitychange"
FocusFeed ==
    /\ \E l \in LoadSlots : startLoadFeed(l)
    /\ UNCHANGED <<dbVars, fNotes>>

\* .on("postgres_changes", ..., loadSessionAndFeed)
RealtimeNotifies ==
    /\ fNotes > 0
    /\ fNotes' = fNotes - 1
    /\ \E l \in LoadSlots : startLoadFeed(l)
    /\ UNCHANGED dbVars

\* getSession() answers: up to the profiles query.
sessionAnswered(l, failing) ==
    /\ fLoads[l].pc = "getSession"
    /\ IF failing THEN
          /\ fLoads' = [fLoads EXCEPT ![l] = NoLoad]
          /\ IF FeedShown
             THEN feedError' = BackendError /\ feedLoading' = FALSE
             ELSE UNCHANGED <<feedError, feedLoading>>
          /\ UNCHANGED <<feedUserId, feedHandoffs>>
       ELSE IF session = NoUser THEN
          /\ fLoads' = [fLoads EXCEPT ![l] = NoLoad]
          /\ IF FeedShown
             THEN feedUserId' = NoUser /\ feedHandoffs' = <<>> /\ feedLoading' = FALSE
             ELSE UNCHANGED <<feedUserId, feedHandoffs, feedLoading>>
          /\ UNCHANGED feedError
       ELSE
          /\ fLoads' = [fLoads EXCEPT ![l] = [pc |-> "profiles", uid |-> session,
                                              data |-> <<>>]]
          /\ IF FeedShown
             THEN feedUserId' = session
             ELSE UNCHANGED feedUserId
          /\ UNCHANGED <<feedError, feedHandoffs, feedLoading>>
    /\ UNCHANGED <<session, showResolved, feedRoute, dbVars, fNotes>>

SessionAnswered == \E l \in LoadSlots, failing \in BOOLEAN : sessionAnswered(l, failing)

\* The profiles query answers: the onboarding gate, up to the handoffs query.
profileAnswered(l, failing) ==
    /\ fLoads[l].pc = "profiles"
    /\ IF failing \/ ProfileQueryFails(dbProfiles, fLoads[l].uid) THEN
          /\ fLoads' = [fLoads EXCEPT ![l] = NoLoad]
          /\ IF FeedShown
             THEN feedError' = BackendError /\ feedLoading' = FALSE
             ELSE UNCHANGED <<feedError, feedLoading>>
          /\ UNCHANGED feedRoute
       ELSE IF GateBlocks(ProfileOf(dbProfiles, fLoads[l].uid)) THEN
          /\ fLoads' = [fLoads EXCEPT ![l] = NoLoad]
          /\ IF FeedShown
             THEN feedLoading' = FALSE
             ELSE UNCHANGED feedLoading
          /\ feedRoute' = "onboarding"
          /\ UNCHANGED feedError
       ELSE
          /\ fLoads' = [fLoads EXCEPT ![l].pc = "handoffs"]
          /\ UNCHANGED <<feedError, feedLoading, feedRoute>>
    /\ UNCHANGED <<session, feedUserId, feedHandoffs, showResolved, dbVars, fNotes>>

ProfileAnswered == \E l \in LoadSlots, failing \in BOOLEAN : profileAnswered(l, failing)

\* The backend evaluates the handoffs query of a run; its answer is on its way.
backendAnswersHandoffs(l, failing, data) ==
    /\ fLoads[l].pc = "handoffs"
    /\ fLoads' = [fLoads EXCEPT ![l].pc = IF failing THEN "failed" ELSE "answered",
                                ![l].data = data]
    /\ UNCHANGED <<feedVars, dbVars, fNotes>>

BackendAnswersHandoffs ==
    \E l \in LoadSlots :
       \/ backendAnswersHandoffs(l, TRUE, <<>>)
       \/ \E data \in HandoffsQueryResults(dbHandoffs) :
             backendAnswersHandoffs(l, FALSE, data)

\* The answer of the handoffs query arrives: the end of loadSessionAndFeed().
handoffsAnswered(l) ==
    /\ fLoads[l].pc \in {"answered", "failed"}
    /\ fLoads' = [fLoads EXCEPT ![l] = NoLoad]
    /\ IF ~FeedShown THEN
          UNCHANGED <<feedError, feedHandoffs, feedLoading>>
       ELSE IF fLoads[l].pc = "failed" THEN
          /\ feedError' = BackendError
          /\ feedLoading' = FALSE
          /\ UNCHANGED feedHandoffs
       ELSE
          /\ feedHandoffs' = fLoads[l].data
          /\ feedLoading' = FALSE
          /\ UNCHANGED feedError
    /\ UNCHANGED <<session, feedUserId, showResolved, feedRoute, dbVars, fNotes>>

HandoffsAnswered == \E l \in LoadSlots : handoffsAnswered(l)

\* The writes made since LiveDbInit: rows created and rows resolved.
WritesDone(table) ==
    (Len(table) - 1) + Cardinality({i \in 1..Len(table) : table[i].status = StrResolved})

\* The backend's clock at a write: later than every stored time.
RECURSIVE NewestTime(_, _)
NewestTime(table, n) ==
    IF n = 0 THEN 0
    ELSE LET rest == NewestTime(table, n - 1)
             mine == IF table[n].last_update_at > table[n].created_at
                     THEN table[n].last_update_at ELSE table[n].created_at
         IN  IF mine > rest THEN mine ELSE rest

\* A subscribed feed is notified of the change.
Notified == IF FeedShown THEN fNotes + 1 ELSE fNotes

\* Another client creates a handoff.
OtherClientCreates ==
    /\ WritesDone(dbHandoffs) < MaxWrites
    /\ dbHandoffs' =
          Append(dbHandoffs,
                 [id |-> Len(dbHandoffs) + 1,
                  created_at |-> NewestTime(dbHandoffs, Len(dbHandoffs)) + 1,
                  last_update_at |-> NullTime,
                  status |-> StrOpen])
    /\ fNotes' = Notified
    /\ UNCHANGED <<dbProfiles, feedVars, fLoads>>

\* Another client resolves a handoff from its detail screen.
OtherClientResolves ==
    /\ WritesDone(dbHandoffs) < MaxWrites
    /\ \E i \in 1..Len(dbHandoffs) :
          /\ dbHandoffs[i].status # StrResolved
          /\ dbHandoffs' =
                ResolveUpdate(dbHandoffs, i, NewestTime(dbHandoffs, Len(dbHandoffs)) + 1)
    /\ fNotes' = Notified
    /\ UNCHANGED <<dbProfiles, feedVars, fLoads>>

\* The callback handed to onAuthStateChange, called with no session.
\* loadSessionAndFeed() runs up to its first await.
authStateChanged(l) ==
    /\ fLoads[l].pc = "idle"
    /\ feedUserId' = NoUser
    /\ feedError' = NoMsg
    /\ feedLoading' = TRUE
    /\ fLoads' = [fLoads EXCEPT ![l] = [NoLoad EXCEPT !.pc = "getSession"]]

\* The session ends outside this screen (another tab signs out, the refresh
\* token is revoked): the auth client drops it and calls the callback.
SessionEndsElsewhere ==
    /\ FeedShown
    /\ session # NoUser
    /\ session' = NoUser
    /\ \E l \in LoadSlots : authStateChanged(l)
    /\ UNCHANGED <<feedHandoffs, showResolved, feedRoute, dbVars, fNotes>>

\* signOut(): the auth client drops the session and calls the callback, then
\* the setters and router.push("/auth") of the remainder run.
signOut ==
    /\ FeedShown
    /\ feedUserId # NoUser
    /\ session' = NoUser
    /\ \E l \in LoadSlots : authStateChanged(l)
    /\ feedHandoffs' = <<>>
    /\ feedRoute' = "auth"
    /\ UNCHANGED <<showResolved, dbVars, fNotes>>

(***************************************************************************)
(* Create screen (CreateHandoffPage): the enum-driven screen and the older *)
(* one with a free-text category                                           *)
(***************************************************************************)

\* Handoffs the create screen may insert in one run of the model.
MaxCreated == 1

StrGeneral == <<"g","e","n","e","r","a","l">>

StrEquipment == <<"e","q","u","i","p">>

StrMedium == <<"m","e","d","i","u","m">>

StrLow == <<"l","o","w">>

\* What get_cs_category_enum may answer.
CategoryEnums == {<<>>, <<StrEquipment, StrGeneral>>}

\* What get_cs_priority_enum may answer when it does not fail.
PriorityEnums == {<<>>, <<StrLow, StrHigh>>}

\* useState(["low", "medium", "high"])
PriorityFallback == <<StrLow, StrMedium, StrHigh>>

\* Texts typed into the summary: empty; 4 characters once trimmed, 7 before;
\* 5 characters once trimmed.
CreateSummaries ==
    {<<>>, <<" ","b","e","d","4"," "," ">>, <<" ","b","e","d"," ","4">>}

CreateLocations == {<<" ">>, <<"C","S"," ">>}

CreateSnapshots == {<<" ">>}

\* Texts typed into the category input of the older screen.
CreateCategoryTexts == {<<" ">>, <<" ","e","q","u","i","p">>}

MsgNotInitialized == "Supabase not initialized."

MsgEnvMissing == "Supabase env vars missing. Check NEXT_PUBLIC_SUPABASE_URL / ANON_KEY."

MsgNotSignedIn == "Not signed in. Open the app login first."

MsgFillRequired == "Fill out the required fields."

MsgFillRequiredOld == "Fill out the required fields (summary must be at least 5 chars)."

MsgCreated == "Handoff created."

NoInsert == [status |-> Null]

\* The screen as useState() creates it on mount; configured tells whether the
\* supabase client could be built from the environment.
CreateMounted(variant, configured) ==
    [variant |-> variant,
     supabase |-> configured,
     route |-> "create",
     boot |-> "getUser",
     ready |-> FALSE,
     user |-> NoUser,
     categoryOptions |-> <<>>,
     priorityOptions |-> IF variant = "enums" THEN PriorityFallback ELSE <<>>,
     enumsLoaded |-> FALSE,
     summary |-> <<>>,
     category |-> IF variant = "enums" THEN <<>> ELSE StrGeneral,
     priority |-> IF variant = "enums" THEN <<>> ELSE StrMedium,
     locationCode |-> <<"C","S">>,
     displayNameSnapshot |-> <<"A","D"," ","/"," ","C","S">>,
     submitting |-> FALSE,
     errorMsg |-> NoMsg,
     okMsg |-> NoMsg,
     req |-> NoInsert,
     timer |-> 0]

\* No create screen is open.
CreateClosed == [CreateMounted("enums", TRUE) EXCEPT !.route = "none", !.boot = "done"]

CreateIdle == create = CreateClosed

CreateInit ==
    \E variant \in {"enums", "old"}, configured \in BOOLEAN :
       create = CreateMounted(variant, configured)

CreateShown == create.route = "create"

\* cats.includes("general") ? "general" : cats[0] ?? ""
DefaultCategory(cats) ==
    IF \E i \in 1..Len(cats) : cats[i] = StrGeneral THEN StrGeneral
    ELSE IF cats # <<>> THEN cats[1] ELSE <<>>

\* pris.includes("medium") ? "medium" : pris[0]
DefaultPriority(pris) ==
    IF \E i \in 1..Len(pris) : pris[i] = StrMedium THEN StrMedium ELSE pris[1]

\* boot(): getUser() answers.
bootUser(failing) ==
    /\ CreateShown
    /\ create.boot = "getUser"
    /\ IF ~create.supabase THEN
          create' = [create EXCEPT !.errorMsg = MsgEnvMissing, !.ready = TRUE,
                                   !.boot = "done"]
       ELSE IF failing \/ session = NoUser THEN
          create' = [create EXCEPT !.user = NoUser, !.ready = TRUE, !.boot = "done"]
       ELSE
          create' = [create EXCEPT !.user = session, !.ready = TRUE,
                                   !.boot = IF create.variant = "enums"
                                            THEN "enums" ELSE "done"]
    /\ UNCHANGED <<session, dbVars>>

BootUser == \E failing \in BOOLEAN : bootUser(failing)

\* boot(): the two enumeration queries answer.  cats is what the category
\* query answers (failing when it is an error), pris what the priority query
\* answers (priFailing when it is an error).
bootEnums(failing, cats, priFailing, pris) ==
    /\ CreateShown
    /\ create.boot = "enums"
    /\ IF failing THEN
          create' = [create EXCEPT !.enumsLoaded = FALSE, !.errorMsg = BackendError,
                                   !.boot = "done"]
       ELSE IF ~priFailing /\ Len(pris) > 0 THEN
          create' = [create EXCEPT !.categoryOptions = cats,
                                   !.category = DefaultCategory(cats),
                                   !.priorityOptions = pris,
                                   !.priority = DefaultPriority(pris),
                                   !.enumsLoaded = TRUE,
                                   !.boot = "done"]
       ELSE
          create' = [create EXCEPT !.categoryOptions = cats,
                                   !.category = DefaultCategory(cats),
                                   !.priority = StrMedium,
                                   !.enumsLoaded = TRUE,
                                   !.boot = "done"]
    /\ UNCHANGED <<session, dbVars>>

BootEnums ==
    \/ bootEnums(TRUE, <<>>, FALSE, <<>>)
    \/ \E cats \in CategoryEnums :
          \/ bootEnums(FALSE, cats, TRUE, <<>>)
          \/ \E pris \in PriorityEnums : bootEnums(FALSE, cats, FALSE, pris)

\* The form is rendered for a signed-in user once boot has the user.
CreateFormShown == CreateShown /\ create.ready /\ create.supabase /\ create.user # NoUser

\* onChange of the summary, location and snapshot inputs.
TypeCreateText ==
    /\ CreateFormShown
    /\ \/ \E t \in CreateSummaries : create' = [create EXCEPT !.summary = t]
       \/ \E t \in CreateLocations : create' = [create EXCEPT !.locationCode = t]
       \/ \E t \in CreateSnapshots : create' = [create EXCEPT !.displayNameSnapshot = t]
    /\ UNCHANGED <<session, dbVars>>

\* onChange of the category and priority controls: a select over the loaded
\* options in the enum-driven screen (disabled until they are loaded); in the
\* older screen a text input and a select over low, medium, high.
ChooseCreateOption ==
    /\ CreateFormShown
    /\ IF create.variant = "enums" THEN
          /\ create.enumsLoaded
          /\ \/ \E i \in 1..Len(create.categoryOptions) :
                   create' = [create EXCEPT !.category = create.categoryOptions[i]]
             \/ \E i \in 1..Len(create.priorityOptions) :
                   create' = [create EXCEPT !.priority = create.priorityOptions[i]]
       ELSE
          \/ \E t \in CreateCategoryTexts : create' = [create EXCEPT !.category = t]
          \/ \E i \in 1..Len(PriorityFallback) :
                create' = [create EXCEPT !.priority = PriorityFallback[i]]
    /\ UNCHANGED <<session, dbVars>>

\* A mutant of canSubmit: the summary is measured untrimmed.
CanSubmitUntrimmed(c) ==
    /\ c.supabase
    /\ c.user # NoUser
    /\ c.variant = "enums" => c.enumsLoaded
    /\ Len(c.summary) >= 5
    /\ IF c.variant = "enums"
       THEN Truthy(c.category) /\ Truthy(c.priority)
       ELSE Len(Trim(c.category)) > 0 /\ Len(Trim(c.priority)) > 0
    /\ Len(Trim(c.locationCode)) > 0

\* canSubmit of either screen.
canSubmit(c) ==
    /\ c.supabase
    /\ c.user # NoUser
    /\ c.variant = "enums" => c.enumsLoaded
    /\ Len(Trim(c.summary)) >= 5
    /\ IF c.variant = "enums"
       THEN Truthy(c.category) /\ Truthy(c.priority)
       ELSE Len(Trim(c.category)) > 0 /\ Len(Trim(c.priority)) > 0
    /\ Len(Trim(c.locationCode)) > 0

\* A mutant of the payload: the status is taken from the priority field.
CreatePayloadStatusFromForm(c) ==
    [summary |-> Trim(c.summary),
     category |-> IF c.variant = "enums" THEN c.category ELSE Trim(c.category),
     priority |-> Trim(c.priority),
     status |-> Trim(c.priority),
     location_code |-> Trim(c.locationCode),
     created_by |-> c.user,
     created_by_display_name_snapshot |-> OrElse(Trim(c.displayNameSnapshot), Null)]

\* const payload = {...}
CreatePayload(c) ==
    [summary |-> Trim(c.summary),
     category |-> IF c.variant = "enums" THEN c.category ELSE Trim(c.category),
     priority |-> Trim(c.priority),
     status |-> StrOpen,
     location_code |-> Trim(c.locationCode),
     created_by |-> c.user,
     created_by_display_name_snapshot |-> OrElse(Trim(c.displayNameSnapshot), Null)]

\* onCreate() up to the insert it awaits.  The button that calls it is disabled
\* while a request is in flight.
onCreate ==
    /\ CreateShown
    /\ ~create.submitting
    /\ IF ~create.supabase THEN
          create' = [create EXCEPT !.okMsg = NoMsg, !.errorMsg = MsgNotInitialized]
       ELSE IF create.user = NoUser THEN
          create' = [create EXCEPT !.okMsg = NoMsg, !.errorMsg = MsgNotSignedIn]
       ELSE IF ~canSubmit(create) THEN
          create' = [create EXCEPT !.okMsg = NoMsg,
                                   !.errorMsg = IF create.variant = "enums"
                                                THEN MsgFillRequired
                                                ELSE MsgFillRequiredOld]
       ELSE
          create' = [create EXCEPT !.okMsg = NoMsg, !.errorMsg = NoMsg,
                                   !.submitting = TRUE,
                                   !.req = CreatePayload(create)]
    /\ UNCHANGED <<session, dbVars>>

\* from("handoffs").insert(payload): the backend assigns id and created_at;
\* last_update_at is not in the payload.
InsertHandoff(table, payload, t) ==
    Append(table,
           [id |-> Len(table) + 1,
            created_at |-> t,
            last_update_at |-> NullTime,
            status |-> payload.status,
            summary |-> payload.summary,
            category |-> payload.category,
            priority |-> payload.priority,
            location_code |-> payload.location_code,
            created_by |-> payload.created_by,
            created_by_display_name_snapshot |-> payload.created_by_display_name_snapshot])

\* The insert answers: the rest of onCreate().  The enum-driven screen leaves
\* for the detail screen from a timer, the older one at once.
onCreateAnswered(failing) ==
    /\ create.req # NoInsert
    /\ IF failing THEN
          /\ UNCHANGED dbHandoffs
          /\ create' = IF CreateShown
                       THEN [create EXCEPT !.errorMsg = BackendError,
                                           !.submitting = FALSE, !.req = NoInsert]
                       ELSE [create EXCEPT !.req = NoInsert]
       ELSE
          /\ dbHandoffs' = InsertHandoff(dbHandoffs, create.req,
                                         NewestTime(dbHandoffs, Len(dbHandoffs)) + 1)
          /\ create' =
                IF ~CreateShown THEN [create EXCEPT !.req = NoInsert]
                ELSE IF create.variant = "enums"
                THEN [create EXCEPT !.okMsg = MsgCreated, !.summary = <<>>,
                                    !.submitting = FALSE, !.req = NoInsert,
                                    !.timer = Len(dbHandoffs) + 1]
                ELSE [create EXCEPT !.okMsg = MsgCreated, !.summary = <<>>,
                                    !.submitting = FALSE, !.req = NoInsert,
                                    !.route = "detail"]
    /\ UNCHANGED <<session, dbProfiles>>

\* The rows a create screen inserted.
CreatedRows(table) == {i \in 1..Len(table) : "created_by" \in DOMAIN table[i]}

OnCreateAnswered ==
    \/ onCreateAnswered(TRUE)
    \/ Cardinality(CreatedRows(dbHandoffs)) < MaxCreated /\ onCreateAnswered(FALSE)

\* setTimeout(() => router.push(`/handoff/${data.id}`), 600)
CreateTimerFires ==
    /\ create.timer # 0
    /\ create' = [create EXCEPT !.timer = 0, !.route = "detail"]
    /\ UNCHANGED <<session, dbVars>>

(***************************************************************************)
(* Onboarding screen (OnboardingPage): prefill and save of the profile     *)
(***************************************************************************)

\* Upserts of the profile that may be in flight at once (the Save button is
\* not disabled while one is).
MaxSaves == 1

StrAM == <<"A","M">>

StrPM == <<"P","M">>

StrNOC == <<"N","O","C">>

Shifts == {StrAM, StrPM, StrNOC}

MsgInitials == "Initials must be 2-10 characters (e.g., KM, MA, FR)."

\* Initials typed: 1 character padded to 3; 2 characters in lower case,
\* padded; 10 characters padded to 11; 11 characters.
OnboardNames ==
    {<<" ","k"," ">>,
     <<" ","k","m"," ">>,
     <<" ","a","b","c","d","e","f","g","h","i","j">>,
     <<"a","b","c","d","e","f","g","h","i","j","k">>}

OnboardRoles == {<<" ">>, <<" ","R","N">>}

\* The row of another user, which no save of this browser may touch.
OtherProfile ==
    [user_id |-> "u2", display_name |-> <<"M","A">>, role |-> StrCS, shift |-> StrPM]

OnboardDbInit ==
    /\ dbHandoffs = <<>>
    /\ \E p \in Profiles : dbProfiles = <<OtherProfile>> \o ProfileTable("u1", p)

\* The screen as useState() creates it on mount; its effect awaits getSession().
OnboardMounted ==
    [route |-> "onboarding",
     boot |-> "getSession",
     loading |-> TRUE,
     userId |-> NoUser,
     displayName |-> <<>>,
     role |-> StrCS,
     shift |-> StrAM,
     errorMsg |-> NoMsg,
     saving |-> FALSE,
     reqs |-> {}]

OnboardClosed == [OnboardMounted EXCEPT !.route = "none", !.boot = "done"]

OnboardIdle == onboard = OnboardClosed

OnboardInit == onboard = OnboardMounted

OnboardShown == onboard.route = "onboarding"

\* The effect: getSession() answers.
onboardSession(failing) ==
    /\ OnboardShown
    /\ onboard.boot = "getSession"
    /\ IF failing THEN
          onboard' = [onboard EXCEPT !.errorMsg = BackendError, !.loading = FALSE,
                                     !.boot = "done"]
       ELSE IF session = NoUser THEN
          onboard' = [onboard EXCEPT !.loading = FALSE, !.route = "auth",
                                     !.boot = "done"]
       ELSE
          onboard' = [onboard EXCEPT !.userId = session, !.boot = "profiles"]
    /\ UNCHANGED <<session, dbVars>>

OnboardSession == \E failing \in BOOLEAN : onboardSession(failing)

\* from("profiles").select("display_name, role, shift").eq("user_id", uid)
\*   .maybeSingle(): the row, or null when there is none or the query failed.
ProfilePrefill(rows, uid) ==
    IF Cardinality(ProfileRowsOf(rows, uid)) # 1
    THEN [display_name |-> Null, role |-> Null, shift |-> Null]
    ELSE LET r == rows[CHOOSE i \in ProfileRowsOf(rows, uid) : TRUE]
         IN  [display_name |-> r.display_name, role |-> r.role, shift |-> r.shift]

\* The effect: the profiles query answers and the form is prefilled.
onboardPrefill(failing) ==
    /\ OnboardShown
    /\ onboard.boot = "profiles"
    /\ LET prof == IF failing THEN ProfilePrefill(<<>>, onboard.userId)
                   ELSE ProfilePrefill(dbProfiles, onboard.userId)
       IN  onboard' =
              [onboard EXCEPT
                 !.displayName = IF Truthy(prof.display_name) THEN prof.display_name ELSE @,
                 !.role = IF Truthy(prof.role) THEN prof.role ELSE @,
                 !.shift = IF prof.shift \in Shifts THEN prof.shift ELSE @,
                 !.loading = FALSE,
                 !.boot = "done"]
    /\ UNCHANGED <<session, dbVars>>

OnboardPrefill == \E failing \in BOOLEAN : onboardPrefill(failing)

\* onChange of the inputs and of the shift select, once the form is rendered.
TypeOnboard ==
    /\ OnboardShown
    /\ ~onboard.loading
    /\ \/ \E t \in OnboardNames : onboard' = [onboard EXCEPT !.displayName = t]
       \/ \E t \in OnboardRoles : onboard' = [onboard EXCEPT !.role = t]
       \/ \E t \in Shifts : onboard' = [onboard EXCEPT !.shift = t]
    /\ UNCHANGED <<session, dbVars>>

\* A mutant of the name: trimmed, case as typed.
ProfileNameAsTyped(text) == Trim(text)

\* const dn = displayName.trim().toUpperCase()
ProfileName(text) == ToUpperCase(Trim(text))

\* A mutant of the row: the shift left out.
ProfilePayloadNoShift(o) ==
    [user_id |-> o.userId,
     display_name |-> ProfileName(o.displayName),
     role |-> OrElse(Trim(o.role), StrCS),
     shift |-> <<>>]

\* The row save() sends.
ProfilePayload(o) ==
    [user_id |-> o.userId,
     display_name |-> ProfileName(o.displayName),
     role |-> OrElse(Trim(o.role), StrCS),
     shift |-> o.shift]

\* save() up to the upsert it awaits.
save ==
    /\ OnboardShown
    /\ Cardinality(onboard.reqs) < MaxSaves
    /\ IF onboard.userId = NoUser THEN
          onboard' = [onboard EXCEPT !.errorMsg = NoMsg]
       ELSE IF Len(ProfileName(onboard.displayName)) < 2
                 \/ Len(ProfileName(onboard.displayName)) > 10 THEN
          onboard' = [onboard EXCEPT !.errorMsg = MsgInitials]
       ELSE
          onboard' = [onboard EXCEPT !.errorMsg = NoMsg, !.saving = TRUE,
                                     !.reqs = @ \cup {ProfilePayload(onboard)}]
    /\ UNCHANGED <<session, dbVars>>

\* from("profiles").upsert(row, { onConflict: "user_id" })
UpsertProfile(rows, row) ==
    IF ProfileRowsOf(rows, row.user_id) = {} THEN Append(rows, row)
    ELSE [i \in 1..Len(rows) |-> IF rows[i].user_id = row.user_id THEN row ELSE rows[i]]

\* An upsert answers: the rest of save().
saveAnswered(req, failing) ==
    /\ req \in onboard.reqs
    /\ dbProfiles' = IF failing THEN dbProfiles ELSE UpsertProfile(dbProfiles, req)
    /\ onboard' =
          IF ~OnboardShown THEN [onboard EXCEPT !.reqs = @ \ {req}]
          ELSE IF failing
          THEN [onboard EXCEPT !.reqs = @ \ {req}, !.saving = FALSE,
                               !.errorMsg = BackendError]
          ELSE [onboard EXCEPT !.reqs = @ \ {req}, !.saving = FALSE, !.route = "feed"]
    /\ UNCHANGED <<session, dbHandoffs>>

SaveAnswered == \E req \in onboard.reqs, failing \in BOOLEAN : saveAnswered(req, failing)

\* The user comes back to the onboarding screen.
OpenOnboard ==
    /\ onboard.route = "feed"
    /\ onboard.reqs = {}
    /\ onboard' = OnboardMounted
    /\ UNCHANGED <<session, dbVars>>

\* The router follows the gate's router.push("/onboarding"): the onboarding
\* screen mounts.
EnterOnboarding ==
    /\ feedRoute = "onboarding"
    /\ onboard = OnboardClosed
    /\ onboard' = OnboardMounted
    /\ UNCHANGED <<session, dbVars, feedScreenVars, liveVars>>

\* The router follows save()'s router.push("/"): the feed mounts and its
\* first effect calls loadSessionAndFeed().
EnterFeed ==
    /\ onboard.route = "feed"
    /\ onboard.reqs = {}
    /\ \A l \in LoadSlots : fLoads[l].pc = "idle"
    /\ onboard' = OnboardClosed
    /\ feedUserId' = NoUser
    /\ feedLoading' = TRUE
    /\ feedError' = NoMsg
    /\ feedHandoffs' = <<>>
    /\ showResolved' = FALSE
    /\ feedRoute' = "feed"
    /\ fLoads' = [l \in LoadSlots |->
                     IF l = 1 THEN [NoLoad EXCEPT !.pc = "getSession"] ELSE NoLoad]
    /\ UNCHANGED <<session, dbVars, fNotes>>

(***************************************************************************)
(* Resolve endpoint (POST): closes a handoff for the bearer of a session   *)
(* token and appends an audit row                                          *)
(***************************************************************************)

\* "SYSTEM: RESOLVED by "
ResolvedByPrefix ==
    <<"S","Y","S","T","E","M",":"," ","R","E","S","O","L","V","E","D"," ","b","y"," ">>

MissingBearer == "Missing bearer token"

InvalidSession == "Invalid session"

HandoffIdRequired == "handoff_id required"

\* The user a bearer token belongs to: the access token of u1's session is
\* valid, any other is not; NoUser for an Authorization header that is absent
\* or not of the Bearer form.
ResolveRequests ==
    {[route |-> "resolve", bearer |-> b, user |-> IF b = "token-u1" THEN "u1" ELSE NoUser,
      malformed |-> FALSE, handoff_id |-> hid, failing |-> "none"] :
        b \in {"none", "token-u1", "token-x"}, hid \in {0, 1, 2}}
    \cup
    {[route |-> "resolve", bearer |-> "token-u1", user |-> "u1",
      malformed |-> m, handoff_id |-> 1, failing |-> f] :
        m \in BOOLEAN, f \in {"update", "insert"}}

\* from("handoffs").update({ status: "closed" }).eq("id", handoff_id)
CloseUpdate(table, id) ==
    [i \in 1..Len(table) |->
        IF table[i].id = id THEN [table[i] EXCEPT !.status = StrClosed] ELSE table[i]]

resolvePOSTAnyBearer(req) ==
    /\ relayReq' = req
    /\ IF req.malformed THEN
          /\ relayReply' = Reply(500, ServerError)
          /\ UNCHANGED <<dbHandoffs, dbUpdates>>
       ELSE IF req.handoff_id = 0 THEN
          /\ relayReply' = Reply(400, HandoffIdRequired)
          /\ UNCHANGED <<dbHandoffs, dbUpdates>>
       ELSE IF req.failing = "update" THEN
          /\ relayReply' = Reply(500, BackendError)
          /\ UNCHANGED <<dbHandoffs, dbUpdates>>
       ELSE IF req.failing = "insert" THEN
          /\ dbHandoffs' = CloseUpdate(dbHandoffs, req.handoff_id)
          /\ relayReply' = Reply(500, BackendError)
          /\ UNCHANGED dbUpdates
       ELSE
          /\ dbHandoffs' = CloseUpdate(dbHandoffs, req.handoff_id)
          /\ dbUpdates' =
                InsertUpdate(dbUpdates,
                             SystemPayload(req.handoff_id,
                                           ResolvedByPrefix \o Email(req.user)),
                             NextUpdateTime(dbUpdates))
          /\ relayReply' = ReplyOk
    /\ UNCHANGED <<webhookSecret, dbProfiles>>

\* POST of the resolve endpoint.  The update and the insert are two requests:
\* when the insert fails the update stays.
resolvePOST(req) ==
    /\ relayReq' = req
    /\ IF req.bearer = "none" THEN
          /\ relayReply' = Reply(401, MissingBearer)
          /\ UNCHANGED <<dbHandoffs, dbUpdates>>
       ELSE IF req.user = NoUser THEN
          /\ relayReply' = Reply(401, InvalidSession)
          /\ UNCHANGED <<dbHandoffs, dbUpdates>>
       ELSE IF req.malformed THEN
          /\ relayReply' = Reply(500, ServerError)
          /\ UNCHANGED <<dbHandoffs, dbUpdates>>
       ELSE IF req.handoff_id = 0 THEN
          /\ relayReply' = Reply(400, HandoffIdRequired)
          /\ UNCHANGED <<dbHandoffs, dbUpdates>>
       ELSE IF req.failing = "update" THEN
          /\ relayReply' = Reply(500, BackendError)
          /\ UNCHANGED <<dbHandoffs, dbUpdates>>
       ELSE IF req.failing = "insert" THEN
          /\ dbHandoffs' = CloseUpdate(dbHandoffs, req.handoff_id)
          /\ relayReply' = Reply(500, BackendError)
          /\ UNCHANGED dbUpdates
       ELSE
          /\ dbHandoffs' = CloseUpdate(dbHandoffs, req.handoff_id)
          /\ dbUpdates' =
                InsertUpdate(dbUpdates,
                             SystemPayload(req.handoff_id,
                                           ResolvedByPrefix \o Email(req.user)),
                             NextUpdateTime(dbUpdates))
          /\ relayReply' = ReplyOk
    /\ UNCHANGED <<webhookSecret, dbProfiles>>

(***************************************************************************)
(* Every writer at once: a detail screen, a create screen and an           *)
(* onboarding screen with their forms filled in, and the four endpoints    *)
(***************************************************************************)

\* The enum-driven create screen after boot, a summary typed.
CreateReady ==
    [CreateMounted("enums", TRUE) EXCEPT
        !.boot = "done", !.ready = TRUE, !.user = "u1",
        !.categoryOptions = <<StrEquipment, StrGeneral>>,
        !.category = StrGeneral, !.priority = StrMedium, !.enumsLoaded = TRUE,
        !.summary = <<" ","b","e","d"," ","4">>]

\* The onboarding screen after its effect, initials typed.
OnboardReady ==
    [OnboardMounted EXCEPT
        !.boot = "done", !.loading = FALSE, !.userId = "u1",
        !.displayName = <<" ","k","m"," ">>]

\* One request to each of the inbound routes.
OpsAlertRequests ==
    {r \in AlertRequests :
        /\ r.secret = TheSecret /\ r.naming = "snake" /\ ~r.malformed
        /\ r.handoff_id = 2 /\ r.from = Sender /\ Truthy(r.message)
        /\ r.failing = "none"}

OpsReplyRequests ==
    {r \in ReplyRequests :
        /\ r.secret = Null /\ r.contentType = "form" /\ r.from = Sender
        /\ r.message = <<" ","o","k"," ","H",":","A","B","1","2"," ">>
        /\ r.failing = "none"}

OpsNotifyRequests ==
    {r \in NotifyRequests :
        /\ r.secret = TheSecret /\ r.handoff_id = 1 /\ r.priority = StrHigh
        /\ r.summary = ShortSummary /\ r.location_code = Null /\ r.failing = "none"}

OpsResolveRequests ==
    {r \in ResolveRequests : r.user = "u1" /\ r.handoff_id = 1 /\ ~r.malformed}

OpsRelay ==
    /\ Len(dbUpdates) < MaxUpdates
    /\ \/ \E req \in OpsAlertRequests : smsAlertPOST(req)
       \/ \E req \in OpsReplyRequests : smsReplyPOST(req)
       \/ \E req \in OpsNotifyRequests : smsNotifyPOST(req)
    /\ UNCHANGED dbVars

OpsResolve ==
    /\ Len(dbUpdates) < MaxUpdates
    /\ \E req \in OpsResolveRequests : resolvePOST(req)

\* A POST to the resolve endpoint.
PostResolve ==
    /\ Len(dbUpdates) < MaxUpdates
    /\ \E req \in ResolveRequests : resolvePOST(req)

\* Mark Resolved is clicked, the browser's clock reading the latest time.
OpsMarkResolved(s) == markResolved(s, MaxTime)

(***************************************************************************)
(* Specifications                                                          *)
(***************************************************************************)

RestIdle == LiveIdle /\ CreateIdle /\ OnboardIdle

\* The status pill, rendered for every raw status.
InitStatus == StatusInit /\ DbIdle /\ FeedIdle /\ DetailIdle /\ RelayIdle /\ RestIdle

NextStatus ==
    \/ RenderStatusPill /\ UNCHANGED <<dbVars, feedVars, detailVars, relayVars, restVars>>
    \/ NewStatusProp /\ UNCHANGED <<dbVars, feedVars, detailVars, relayVars, restVars>>

SpecStatus == InitStatus /\ [][NextStatus]_vars

\* One feed screen over every handoffs table of up to MaxHandoffs rows.
InitFeed == StatusIdle /\ FeedDbInit /\ FeedInit /\ DetailIdle /\ RelayIdle /\ RestIdle

NextFeed ==
    \/ LoadFeed /\ UNCHANGED <<statusVars, dbVars, detailVars, relayVars, restVars>>
    \/ ToggleShowResolved /\ UNCHANGED <<statusVars, dbVars, detailVars, relayVars, restVars>>
    \/ RemountFeed /\ UNCHANGED <<statusVars, dbVars, detailVars, relayVars, restVars>>

SpecFeed == InitFeed /\ [][NextFeed]_vars

\* Two detail screens of one signed-in browser over two handoffs.
InitDetail ==
    /\ StatusIdle
    /\ DetailDbInit
    /\ FeedMounted
    /\ session = "u1"
    /\ DetailInit
    /\ RelayIdle
    /\ RestIdle

NextDetail ==
    \/ \E s \in Screens : LoadDetail(s) /\ UNCHANGED <<statusVars, dbProfiles, feedScreenVars, relayVars, restVars>>
    \/ \E s \in Screens : TypeUpdate(s) /\ UNCHANGED <<statusVars, dbProfiles, feedScreenVars, relayVars, restVars>>
    \/ \E s \in Screens : addUpdate(s) /\ UNCHANGED <<statusVars, dbProfiles, feedScreenVars, relayVars, restVars>>
    \/ \E s \in Screens : AddUpdateAnswered(s) /\ UNCHANGED <<statusVars, dbProfiles, feedScreenVars, relayVars, restVars>>
    \/ \E s \in Screens : MarkResolved(s) /\ UNCHANGED <<statusVars, dbProfiles, feedScreenVars, relayVars, restVars>>
    \/ \E s \in Screens : MarkResolvedAnswered(s) /\ UNCHANGED <<statusVars, dbProfiles, feedScreenVars, relayVars, restVars>>
    \/ SessionEnds /\ UNCHANGED <<statusVars, dbProfiles, feedScreenVars, relayVars, restVars>>

SpecDetail == InitDetail /\ [][NextDetail]_vars

\* The two relay endpoints, with and without SMS_WEBHOOK_SECRET, no screen open.
InitRelay ==
    /\ StatusIdle
    /\ DetailDbInit
    /\ FeedIdle
    /\ DetailClosed
    /\ dbUpdates = SeedUpdates
    /\ updatePolicy = TRUE
    /\ RelayInit
    /\ RestIdle

NextRelay ==
    \/ PostSmsAlert /\ UNCHANGED <<statusVars, dbVars, feedVars, updatePolicy, detailScreenVars, restVars>>
    \/ PostSmsReply /\ UNCHANGED <<statusVars, dbVars, feedVars, updatePolicy, detailScreenVars, restVars>>
    \/ PostSmsNotify /\ UNCHANGED <<statusVars, dbVars, feedVars, updatePolicy, detailScreenVars, restVars>>

SpecRelay == InitRelay /\ [][NextRelay]_vars

\* A feed of a signed-in browser, its loads overlapping, while other clients
\* write.
InitLive ==
    /\ StatusIdle
    /\ LiveDbInit
    /\ FeedMounted
    /\ session = "u1"
    /\ DetailIdle
    /\ RelayIdle
    /\ LiveInit
    /\ CreateIdle
    /\ OnboardIdle

NextLive ==
    \/ FocusFeed /\ UNCHANGED <<statusVars, detailVars, relayVars, create, onboard>>
    \/ RealtimeNotifies /\ UNCHANGED <<statusVars, detailVars, relayVars, create, onboard>>
    \/ SessionAnswered /\ UNCHANGED <<statusVars, detailVars, relayVars, create, onboard>>
    \/ ProfileAnswered /\ UNCHANGED <<statusVars, detailVars, relayVars, create, onboard>>
    \/ BackendAnswersHandoffs /\ UNCHANGED <<statusVars, detailVars, relayVars, create, onboard>>
    \/ HandoffsAnswered /\ UNCHANGED <<statusVars, detailVars, relayVars, create, onboard>>
    \/ OtherClientCreates /\ UNCHANGED <<statusVars, detailVars, relayVars, create, onboard>>
    \/ OtherClientResolves /\ UNCHANGED <<statusVars, detailVars, relayVars, create, onboard>>

SpecLive == InitLive /\ [][NextLive]_vars

\* A create screen of a signed-in browser, of either kind.
InitCreate ==
    /\ StatusIdle
    /\ DbIdle
    /\ FeedMounted
    /\ session \in {"u1", NoUser}
    /\ DetailIdle
    /\ RelayIdle
    /\ LiveIdle
    /\ CreateInit
    /\ OnboardIdle

NextCreate ==
    \/ BootUser /\ UNCHANGED <<statusVars, feedScreenVars, detailVars, relayVars, liveVars, onboard>>
    \/ BootEnums /\ UNCHANGED <<statusVars, feedScreenVars, detailVars, relayVars, liveVars, onboard>>
    \/ TypeCreateText /\ UNCHANGED <<statusVars, feedScreenVars, detailVars, relayVars, liveVars, onboard>>
    \/ ChooseCreateOption /\ UNCHANGED <<statusVars, feedScreenVars, detailVars, relayVars, liveVars, onboard>>
    \/ onCreate /\ UNCHANGED <<statusVars, feedScreenVars, detailVars, relayVars, liveVars, onboard>>
    \/ OnCreateAnswered /\ UNCHANGED <<statusVars, feedScreenVars, detailVars, relayVars, liveVars, onboard>>
    \/ CreateTimerFires /\ UNCHANGED <<statusVars, feedScreenVars, detailVars, relayVars, liveVars, onboard>>

SpecCreate == InitCreate /\ [][NextCreate]_vars

\* An onboarding screen; another user has a profile already.
InitOnboard ==
    /\ StatusIdle
    /\ OnboardDbInit
    /\ FeedMounted
    /\ session \in {"u1", NoUser}
    /\ DetailIdle
    /\ RelayIdle
    /\ LiveIdle
    /\ CreateIdle
    /\ OnboardInit

NextOnboard ==
    \/ OnboardSession /\ UNCHANGED <<statusVars, feedScreenVars, detailVars, relayVars, liveVars, create>>
    \/ OnboardPrefill /\ UNCHANGED <<statusVars, feedScreenVars, detailVars, relayVars, liveVars, create>>
    \/ TypeOnboard /\ UNCHANGED <<statusVars, feedScreenVars, detailVars, relayVars, liveVars, create>>
    \/ save /\ UNCHANGED <<statusVars, feedScreenVars, detailVars, relayVars, liveVars, create>>
    \/ SaveAnswered /\ UNCHANGED <<statusVars, feedScreenVars, detailVars, relayVars, liveVars, create>>
    \/ OpenOnboard /\ UNCHANGED <<statusVars, feedScreenVars, detailVars, relayVars, liveVars, create>>

SpecOnboard == InitOnboard /\ [][NextOnboard]_vars

\* Every operation that writes, in any order: one detail screen on handoff 1
\* with an update typed, the create and onboarding screens, the relays and the
\* resolve endpoint.
InitOps ==
    /\ StatusIdle
    /\ DetailDbInit
    /\ FeedMounted
    /\ session = "u1"
    /\ dLoading = [s \in Screens |-> TRUE]
    /\ dError = [s \in Screens |-> NoMsg]
    /\ dHandoff = [s \in Screens |-> NoRow]
    /\ dUpdates = [s \in Screens |-> <<>>]
    /\ newUpdate = [s \in Screens |-> IF s = "tabA" THEN <<" ","o","k">> ELSE <<>>]
    /\ savingUpdate = [s \in Screens |-> FALSE]
    /\ resolving = [s \in Screens |-> FALSE]
    /\ toast = [s \in Screens |-> NoMsg]
    /\ dAdd = [s \in Screens |-> NoPayload]
    /\ dRes = [s \in Screens |-> NoResolve]
    /\ dRoute = [s \in Screens |-> "detail"]
    /\ dSms = [s \in Screens |-> NoSms]
    /\ dId = [s \in Screens |-> IF s = "tabA" THEN 1 ELSE 0]
    /\ dLoads = [s \in Screens |-> IF s = "tabA" THEN {"mount"} ELSE {}]
    /\ dbUpdates = SeedUpdates
    /\ updatePolicy = TRUE
    /\ webhookSecret = TheSecret
    /\ relayReq = NoRequest
    /\ relayReply = NoReply
    /\ LiveIdle
    /\ create = CreateReady
    /\ onboard = OnboardReady

NextOps ==
    \/ \E s \in Screens : LoadDetail(s) /\ UNCHANGED <<statusVars, dbProfiles, feedScreenVars, relayVars, restVars>>
    \/ \E s \in Screens : addUpdate(s) /\ UNCHANGED <<statusVars, dbProfiles, feedScreenVars, relayVars, restVars>>
    \/ \E s \in Screens : AddUpdateAnswered(s) /\ UNCHANGED <<statusVars, dbProfiles, feedScreenVars, relayVars, restVars>>
    \/ \E s \in Screens : OpsMarkResolved(s) /\ UNCHANGED <<statusVars, dbProfiles, feedScreenVars, relayVars, restVars>>
    \/ \E s \in Screens : MarkResolvedAnswered(s) /\ UNCHANGED <<statusVars, dbProfiles, feedScreenVars, relayVars, restVars>>
    \/ onCreate /\ UNCHANGED <<statusVars, feedScreenVars, detailVars, relayVars, liveVars, onboard>>
    \/ OnCreateAnswered /\ UNCHANGED <<statusVars, feedScreenVars, detailVars, relayVars, liveVars, onboard>>
    \/ CreateTimerFires /\ UNCHANGED <<statusVars, feedScreenVars, detailVars, relayVars, liveVars, onboard>>
    \/ save /\ UNCHANGED <<statusVars, feedScreenVars, detailVars, relayVars, liveVars, create>>
    \/ SaveAnswered /\ UNCHANGED <<statusVars, feedScreenVars, detailVars, relayVars, liveVars, create>>
    \/ OpsRelay /\ UNCHANGED <<statusVars, feedVars, updatePolicy, detailScreenVars, restVars>>
    \/ OpsResolve /\ UNCHANGED <<statusVars, feedVars, updatePolicy, detailScreenVars, restVars>>

SpecOps == InitOps /\ [][NextOps]_vars

\* The four screens on entry, with and without a session: the feed, a detail
\* screen on handoff 1, a create screen and the onboarding screen, each with
\* its mount effect in flight.
EntryDbInit ==
    /\ dbHandoffs = <<[id |-> 1, created_at |-> 1, last_update_at |-> NullTime,
                       status |-> StrOpen]>>
    /\ \E p \in Profiles \cup {[display_name |-> <<" ">>, shift |-> <<"A","M">>],
                               [display_name |-> <<"K","M">>, shift |-> <<>>]} :
          dbProfiles = ProfileTable("u1", p)
    /\ dbUpdates =
          <<[id |-> 1, created_at |-> 1, handoff_id |-> 1, author_user_id |-> NoUser,
             author_display_name_snapshot |-> StrSms, source |-> "sms",
             message |-> <<"o","k">>]>>

InitEntry ==
    /\ StatusIdle
    /\ EntryDbInit
    /\ FeedMounted
    /\ session \in {"u1", NoUser}
    /\ DetailMounted
    /\ dId = [s \in Screens |-> IF s = "tabA" THEN 1 ELSE 0]
    /\ dLoads = [s \in Screens |-> IF s = "tabA" THEN {"mount"} ELSE {}]
    /\ updatePolicy = TRUE
    /\ RelayIdle
    /\ LiveInit
    /\ CreateInit
    /\ OnboardInit

NextEntry ==
    \/ SessionAnswered /\ UNCHANGED <<statusVars, detailVars, relayVars, create, onboard>>
    \/ ProfileAnswered /\ UNCHANGED <<statusVars, detailVars, relayVars, create, onboard>>
    \/ BackendAnswersHandoffs /\ UNCHANGED <<statusVars, detailVars, relayVars, create, onboard>>
    \/ HandoffsAnswered /\ UNCHANGED <<statusVars, detailVars, relayVars, create, onboard>>
    \/ \E s \in Screens : LoadDetail(s) /\ UNCHANGED <<statusVars, dbProfiles, feedScreenVars, relayVars, restVars>>
    \/ BootUser /\ UNCHANGED <<statusVars, feedScreenVars, detailVars, relayVars, liveVars, onboard>>
    \/ BootEnums /\ UNCHANGED <<statusVars, feedScreenVars, detailVars, relayVars, liveVars, onboard>>
    \/ OnboardSession /\ UNCHANGED <<statusVars, feedScreenVars, detailVars, relayVars, liveVars, create>>
    \/ OnboardPrefill /\ UNCHANGED <<statusVars, feedScreenVars, detailVars, relayVars, liveVars, create>>

SpecEntry == InitEntry /\ [][NextEntry]_vars

\* The resolve endpoint alone, called with and without a session, a handoff
\* id and failing backends.
InitResolve ==
    /\ StatusIdle
    /\ DetailDbInit
    /\ FeedIdle
    /\ DetailClosed
    /\ dbUpdates \in {<<>>, SeedUpdates}
    /\ updatePolicy = TRUE
    /\ RelayIdle
    /\ RestIdle

NextResolve ==
    \/ PostResolve /\ UNCHANGED <<statusVars, feedVars, updatePolicy, detailScreenVars, restVars>>

SpecResolve == InitResolve /\ [][NextResolve]_vars

\* A feed of a signed-in browser whose session ends, on this screen or
\* elsewhere, while its loads are in flight.
InitSignOut ==
    /\ StatusIdle
    /\ LiveDbInit
    /\ FeedMounted
    /\ session = "u1"
    /\ DetailIdle
    /\ RelayIdle
    /\ LiveInit
    /\ CreateIdle
    /\ OnboardIdle

NextSignOut ==
    \/ FocusFeed /\ UNCHANGED <<statusVars, detailVars, relayVars, create, onboard>>
    \/ SessionAnswered /\ UNCHANGED <<statusVars, detailVars, relayVars, create, onboard>>
    \/ ProfileAnswered /\ UNCHANGED <<statusVars, detailVars, relayVars, create, onboard>>
    \/ BackendAnswersHandoffs /\ UNCHANGED <<statusVars, detailVars, relayVars, create, onboard>>
    \/ HandoffsAnswered /\ UNCHANGED <<statusVars, detailVars, relayVars, create, onboard>>
    \/ signOut /\ UNCHANGED <<statusVars, detailVars, relayVars, create, onboard>>
    \/ SessionEndsElsewhere /\ UNCHANGED <<statusVars, detailVars, relayVars, create, onboard>>

SpecSignOut == InitSignOut /\ [][NextSignOut]_vars

\* The feed and the onboarding screen of one browser, each following the
\* other's redirect: a feed whose user has no profile, an incomplete or a
\* complete one.
InitGate ==
    /\ StatusIdle
    /\ LiveDbInit
    /\ FeedMounted
    /\ session = "u1"
    /\ DetailIdle
    /\ RelayIdle
    /\ LiveInit
    /\ CreateIdle
    /\ OnboardIdle

NextGate ==
    \/ SessionAnswered /\ UNCHANGED <<statusVars, detailVars, relayVars, create, onboard>>
    \/ ProfileAnswered /\ UNCHANGED <<statusVars, detailVars, relayVars, create, onboard>>
    \/ BackendAnswersHandoffs /\ UNCHANGED <<statusVars, detailVars, relayVars, create, onboard>>
    \/ HandoffsAnswered /\ UNCHANGED <<statusVars, detailVars, relayVars, create, onboard>>
    \/ EnterOnboarding /\ UNCHANGED <<statusVars, detailVars, relayVars, create>>
    \/ OnboardSession /\ UNCHANGED <<statusVars, feedScreenVars, detailVars, relayVars, liveVars, create>>
    \/ OnboardPrefill /\ UNCHANGED <<statusVars, feedScreenVars, detailVars, relayVars, liveVars, create>>
    \/ TypeOnboard /\ UNCHANGED <<statusVars, feedScreenVars, detailVars, relayVars, liveVars, create>>
    \/ save /\ UNCHANGED <<statusVars, feedScreenVars, detailVars, relayVars, liveVars, create>>
    \/ SaveAnswered /\ UNCHANGED <<statusVars, feedScreenVars, detailVars, relayVars, liveVars, create>>
    \/ EnterFeed /\ UNCHANGED <<statusVars, detailVars, relayVars, create>>

SpecGate == InitGate /\ [][NextGate]_vars

\* Two detail screens whose Send SMS Alert button is used, the alert route
\* with and without SMS_WEBHOOK_SECRET.
InitSms ==
    /\ StatusIdle
    /\ DetailDbInit
    /\ FeedMounted
    /\ session = "u1"
    /\ DetailInit
    /\ RelayInit
    /\ RestIdle

NextSms ==
    \/ \E s \in Screens : LoadDetail(s) /\ UNCHANGED <<statusVars, dbProfiles, feedScreenVars, relayVars, restVars>>
    \/ \E s \in Screens : sendSms(s) /\ UNCHANGED <<statusVars, dbProfiles, feedScreenVars, restVars>>
    \/ \E s \in Screens : SendSmsAnswered(s) /\ UNCHANGED <<statusVars, dbProfiles, feedScreenVars, restVars>>

SpecSms == InitSms /\ [][NextSms]_vars

(***************************************************************************)
(* C1: status classification is total and exclusive.  Whatever the raw     *)
(* status (null, empty, any letter case, surrounding white space, unknown  *)
(* text), the pill shows exactly one of OPEN, FOLLOW-UP, RESOLVED; a value *)
(* typed as the word "resolved" or "needs_followup" in any case with white *)
(* space around it is classified as such, every other value as open.       *)
(***************************************************************************)
ExpectedLabel(p) ==
    IF p.base = StrResolved THEN "RESOLVED"
    ELSE IF p.base = StrNeedsFollowup THEN "FOLLOW-UP"
    ELSE "OPEN"

C1_StatusTotalExclusive ==
    pill # NoPill =>
        /\ pill.label \in {"OPEN", "FOLLOW-UP", "RESOLVED"}
        /\ pill.label = ExpectedLabel(rawParts)
        /\ ~(pill.resolved /\ pill.followup)
        /\ pill.resolved = isResolvedStatus(rawStatus)
        /\ pill.followup = isFollowupStatus(rawStatus)
        /\ (pill.label = "OPEN") = (~pill.resolved /\ ~pill.followup)

\* " Resolved " (white space around, capitalised) has been rendered as RESOLVED.
C1_Witness ==
    /\ pill.label = "RESOLVED"
    /\ rawParts.lead # <<>>
    /\ rawParts.trail # <<>>
    /\ rawParts.casing = "capitalized"

(***************************************************************************)
(* C2: in the feed ordering every unresolved handoff comes before every    *)
(* resolved one, and inside each of the two groups the effective           *)
(* timestamps (last_update_at when present, else created_at) are           *)
(* non-increasing from first to last.  The ordering keeps every loaded row. *)
(***************************************************************************)
RowsOf(list) == {list[i] : i \in 1..Len(list)}

FeedOrdered(v) ==
    LET res == [i \in 1..Len(v) |-> isResolvedStatus(v[i].status)]
    IN  \A i \in 1..(Len(v) - 1) :
            /\ res[i] => res[i + 1]
            /\ res[i] = res[i + 1] => EffectiveTime(v[i]) >= EffectiveTime(v[i + 1])

C2_FeedOrdering ==
    LET sorted == SortHandoffs(feedHandoffs)
    IN  /\ FeedOrdered(sorted)
        /\ FeedOrdered(FilterUnresolved(sorted))
        /\ Len(sorted) = Len(feedHandoffs)
        /\ RowsOf(sorted) = RowsOf(feedHandoffs)

\* A loaded list of both groups that the backend did not deliver in feed order,
\* shown in full.
C2_Witness ==
    /\ showResolved
    /\ Len(feedHandoffs) >= 3
    /\ \E i, j \in 1..Len(feedHandoffs) :
          /\ isResolvedStatus(feedHandoffs[i].status)
          /\ ~isResolvedStatus(feedHandoffs[j].status)
    /\ \E i, j \in 1..Len(feedHandoffs) :
          /\ i # j
          /\ isResolvedStatus(feedHandoffs[i].status) = isResolvedStatus(feedHandoffs[j].status)
          /\ EffectiveTime(feedHandoffs[i]) # EffectiveTime(feedHandoffs[j])
    /\ ~FeedOrdered(feedHandoffs)
    /\ visibleHandoffs # feedHandoffs

(***************************************************************************)
(* C3: the feed ordering is idempotent.  Ordering an already ordered list  *)
(* gives the same sequence as ordering once, also for lists with equal     *)
(* effective timestamps; the same holds with the visibility filter applied.*)
(***************************************************************************)
C3_OrderingIdempotent ==
    LET once == SortHandoffs(feedHandoffs)
    IN  /\ SortHandoffs(once) = once
        /\ FilterUnresolved(SortHandoffs(FilterUnresolved(once))) = FilterUnresolved(once)

\* Two different rows of one group with the same effective timestamp, in a list
\* the ordering had to rearrange.
C3_Witness ==
    /\ SortHandoffs(feedHandoffs) # feedHandoffs
    /\ \E i, j \in 1..Len(feedHandoffs) :
          /\ i # j
          /\ feedHandoffs[i] # feedHandoffs[j]
          /\ isResolvedStatus(feedHandoffs[i].status) = isResolvedStatus(feedHandoffs[j].status)
          /\ EffectiveTime(feedHandoffs[i]) = EffectiveTime(feedHandoffs[j])

(***************************************************************************)
(* C4: visibility filter.  The toggle is off on every mount.  While it is  *)
(* off the visible feed holds every unresolved handoff of the loaded list  *)
(* and no resolved one; while it is on the visible feed is a permutation   *)
(* of the whole loaded list; toggling never changes the loaded list.       *)
(***************************************************************************)
IdsOf(list) == {list[i].id : i \in 1..Len(list)}

C4_VisibleState ==
    LET loaded == feedHandoffs
        unresolved == {loaded[i] : i \in {k \in 1..Len(loaded) : ~isResolvedStatus(loaded[k].status)}}
    IN  /\ Cardinality(IdsOf(visibleHandoffs)) = Len(visibleHandoffs)
        /\ ~showResolved =>
              /\ RowsOf(visibleHandoffs) = unresolved
              /\ \A i \in 1..Len(visibleHandoffs) :
                    ~isResolvedStatus(visibleHandoffs[i].status)
        /\ showResolved =>
              /\ RowsOf(visibleHandoffs) = RowsOf(loaded)
              /\ Len(visibleHandoffs) = Len(loaded)

C4_VisibilityFilter ==
    /\ ~showResolved
    /\ [][(feedRoute # "feed" /\ feedRoute' = "feed") => ~showResolved']_vars
    /\ []C4_VisibleState
    /\ [][(feedRoute = "feed" /\ showResolved' # showResolved)
            => feedHandoffs' = feedHandoffs]_vars

\* The toggle is off, and the loaded list has rows of both groups: some are hidden.
C4_Witness ==
    /\ ~showResolved
    /\ \E i, j \in 1..Len(feedHandoffs) :
          /\ isResolvedStatus(feedHandoffs[i].status)
          /\ ~isResolvedStatus(feedHandoffs[j].status)
    /\ Len(visibleHandoffs) < Len(feedHandoffs)
    /\ visibleHandoffs # <<>>

(***************************************************************************)
(* C5: resolve from the detail screen.  When access control admits the     *)
(* write and the backend raises no error, the resolve request of a screen  *)
(* sets the stored status of the handoff it names to "resolved" and its    *)
(* last_update_at to the non-null time the request carries, keeps the      *)
(* row's other columns, and changes no other row of handoffs.              *)
(***************************************************************************)
ResolveAnswered(s) == dRes[s] # NoResolve /\ dRes'[s] = NoResolve

C5_ResolveStep(s) ==
    (ResolveAnswered(s) /\ updatePolicy /\ dError'[s] # BackendError) =>
        LET id == dRes[s].id
        IN  /\ Len(dbHandoffs') = Len(dbHandoffs)
            /\ id \in 1..Len(dbHandoffs)
            /\ dbHandoffs'[id].status = StrResolved
            /\ dbHandoffs'[id].last_update_at = dRes[s].now
            /\ dbHandoffs'[id].last_update_at # NullTime
            /\ dbHandoffs'[id].id = dbHandoffs[id].id
            /\ dbHandoffs'[id].created_at = dbHandoffs[id].created_at
            /\ \A j \in 1..Len(dbHandoffs) : j # id => dbHandoffs'[j] = dbHandoffs[j]

C5_ResolveFromDetail == [][\A s \in Screens : C5_ResolveStep(s)]_vars

\* Handoff 1, stored as open, was resolved from a screen at time 2 while
\* handoff 2 is still as it was created.
C5_Witness ==
    \E s \in Screens :
        /\ dId[s] = 1
        /\ toast[s] = ToastMarkedResolved
        /\ dbHandoffs[1].status = StrResolved
        /\ dbHandoffs[1].last_update_at = 2
        /\ dbHandoffs[2].status = StrOpen
        /\ dbHandoffs[2].last_update_at = NullTime

(***************************************************************************)
(* C6: silent write rejection is surfaced.  When the resolve update is     *)
(* answered with zero rows and no error, the screen shows the zero-rows    *)
(* error, leaves the toast as it was (which is not the resolve success     *)
(* message), leaves its local handoff unchanged and starts no load(); the  *)
(* backend row is unchanged.  The resolve success message appears only in  *)
(* a step that wrote the row.                                              *)
(***************************************************************************)
C6_RejectedStep(s) ==
    (ResolveAnswered(s) /\ ~updatePolicy /\ dError'[s] # BackendError) =>
        /\ dError'[s] = ZeroRowsUpdated
        /\ dError'[s] # NoMsg
        /\ toast'[s] = toast[s]
        /\ toast'[s] # ToastMarkedResolved
        /\ dHandoff'[s] = dHandoff[s]
        /\ dLoads'[s] = dLoads[s]
        /\ dLoading'[s] = dLoading[s]
        /\ dbHandoffs' = dbHandoffs

C6_SuccessOnlyForWrittenRow(s) ==
    (toast'[s] = ToastMarkedResolved /\ toast[s] # ToastMarkedResolved) =>
        /\ ResolveAnswered(s)
        /\ updatePolicy
        /\ dbHandoffs'[dRes[s].id].status = StrResolved
        /\ dbHandoffs'[dRes[s].id].last_update_at = dRes[s].now

C6_SilentRejectionSurfaced ==
    [][\A s \in Screens : C6_RejectedStep(s) /\ C6_SuccessOnlyForWrittenRow(s)]_vars

\* A screen shows the zero-rows error over its open local copy, with no load
\* in flight, and the stored row is still open.
C6_Witness ==
    \E s \in Screens :
        /\ ~updatePolicy
        /\ dError[s] = ZeroRowsUpdated
        /\ toast[s] = NoMsg
        /\ dHandoff[s] # NoRow
        /\ dHandoff[s].status = StrOpen
        /\ dLoads[s] = {}
        /\ ~resolving[s]
        /\ dbHandoffs[dId[s]].status = StrOpen

(***************************************************************************)
(* C7: no duplicate resolve transition.                                    *)
(* As stated: once the stored status of a handoff is resolved, no screen   *)
(* issues a resolve write for it (C7_NoResolveWriteOnceResolved).          *)
(* As the code has it: a screen issues a resolve write only while it is    *)
(* rendered, its own copy of the handoff is not resolved and it has no     *)
(* resolve in flight; the write names the handoff of that copy; a screen   *)
(* has at most one resolve in flight (C7_ResolveGuardedByLocalCopy).       *)
(***************************************************************************)
ResolveIssued(s) == dRes[s] = NoResolve /\ dRes'[s] # NoResolve

C7_NoResolveWriteOnceResolved ==
    [][\A s \in Screens :
          ResolveIssued(s) =>
              ~isResolvedStatusDetail(dbHandoffs[dRes'[s].id].status)]_vars

C7_GuardedStep(s) ==
    /\ ResolveIssued(s) =>
          /\ ~dLoading[s]
          /\ dHandoff[s] # NoRow
          /\ ~isResolvedStatusDetail(dHandoff[s].status)
          /\ ~resolving[s]
          /\ resolving'[s]
          /\ dRes'[s].id = dHandoff[s].id
    /\ (dRes[s] # NoResolve /\ dRes'[s] # NoResolve) => dRes'[s] = dRes[s]

C7_ResolveGuardedByLocalCopy ==
    /\ [](\A s \in Screens : dRes[s] # NoResolve => resolving[s])
    /\ [][\A s \in Screens : C7_GuardedStep(s)]_vars

\* A resolve write of one screen is in flight for a handoff that is stored as
\* resolved, while that screen still holds an open copy.
C7_Witness ==
    \E s \in Screens :
        /\ dRes[s] # NoResolve
        /\ isResolvedStatusDetail(dbHandoffs[dRes[s].id].status)
        /\ ~isResolvedStatusDetail(dHandoff[s].status)

(***************************************************************************)
(* C8: append-update from the detail screen.  The insert request carries   *)
(* the screen's handoff id, source "app", the typed text without its       *)
(* leading and trailing white space, and the signed-in user as author.  A  *)
(* successful insert adds exactly one row, with those values, at the end   *)
(* of handoff_updates; a failed insert adds none and shows an error.  No   *)
(* step changes or removes a row that exists.                              *)
(***************************************************************************)
IsPrefix(a, b) == Len(a) <= Len(b) /\ SubSeq(b, 1, Len(a)) = a

IsTrimOf(m, text) ==
    /\ m = <<>> \/ (m[1] \notin WhiteSpace /\ m[Len(m)] \notin WhiteSpace)
    /\ \E i \in 0..Len(text) :
          /\ i + Len(m) <= Len(text)
          /\ SubSeq(text, i + 1, i + Len(m)) = m
          /\ \A k \in 1..Len(text) :
                (k <= i \/ k > i + Len(m)) => text[k] \in WhiteSpace

C8_RequestStep(s) ==
    (dAdd[s] = NoPayload /\ dAdd'[s] # NoPayload) =>
        /\ session # NoUser
        /\ dAdd'[s].handoff_id = dId[s]
        /\ dAdd'[s].author_user_id = session
        /\ dAdd'[s].source = "app"
        /\ IsTrimOf(dAdd'[s].message, newUpdate[s])
        /\ dbUpdates' = dbUpdates

C8_AnsweredStep(s) ==
    (dAdd[s] # NoPayload /\ dAdd'[s] = NoPayload) =>
        \/ /\ dbUpdates' = dbUpdates
           /\ dError'[s] # NoMsg
           /\ toast'[s] # ToastUpdateAdded
        \/ /\ Len(dbUpdates') = Len(dbUpdates) + 1
           /\ LET row == dbUpdates'[Len(dbUpdates')]
              IN  /\ row.handoff_id = dAdd[s].handoff_id
                  /\ row.author_user_id = dAdd[s].author_user_id
                  /\ row.author_display_name_snapshot =
                        dAdd[s].author_display_name_snapshot
                  /\ row.source = "app"
                  /\ row.message = dAdd[s].message
                  /\ \A i \in 1..Len(dbUpdates) : dbUpdates[i].id # row.id
           /\ toast'[s] = ToastUpdateAdded

C8_AppendUpdate ==
    [][/\ IsPrefix(dbUpdates, dbUpdates')
       /\ Len(dbUpdates') <= Len(dbUpdates) + 1
       /\ Len(dbUpdates') > Len(dbUpdates) =>
             \E s \in Screens : dAdd[s] # NoPayload /\ dAdd'[s] = NoPayload
       /\ \A s \in Screens : C8_RequestStep(s) /\ C8_AnsweredStep(s)]_vars

\* The text " ok " typed on a screen of handoff 1 is stored as "ok", by u1,
\* after the row that existed before.
C8_Witness ==
    /\ Len(dbUpdates) = 2
    /\ dbUpdates[1].source = "sms"
    /\ dbUpdates[2].source = "app"
    /\ dbUpdates[2].message = <<"o","k">>
    /\ dbUpdates[2].author_user_id = "u1"
    /\ dbUpdates[2].handoff_id = 1
    /\ \E s \in Screens : toast[s] = ToastUpdateAdded /\ newUpdate[s] = <<>>

(***************************************************************************)
(* C9: inbound SMS relay, success path.  A request that passes the secret  *)
(* check of its route and names a handoff (the alert route by a handoff    *)
(* id with a message; the reply route by the first H:<token> pattern of    *)
(* its trimmed message, the token having one mapping) appends, when the    *)
(* backend accepts the insert, exactly one row to handoff_updates: for     *)
(* that handoff, source "sms", no author id, snapshot "sms:<sender>" or    *)
(* "sms" without a sender; the answer is ok.  Only such a step is answered *)
(* ok, and no step adds more than one row or touches an existing row.      *)
(***************************************************************************)
NonWordAt(msg, k) == k < 1 \/ k > Len(msg) \/ ~(msg[k] \in AlnumSet \cup {"_"})

\* H: followed by exactly n alphanumerics starts at msg[i] as a word of its own.
PatternAt(msg, i, n) ==
    /\ i + 1 + n <= Len(msg)
    /\ msg[i] = "H"
    /\ msg[i + 1] = ":"
    /\ \A k \in (i + 2)..(i + 1 + n) : msg[k] \in AlnumSet
    /\ NonWordAt(msg, i - 1)
    /\ NonWordAt(msg, i + 2 + n)

PatternStarts(msg) == {i \in 1..Len(msg) : \E n \in 4..12 : PatternAt(msg, i, n)}

FirstToken(msg) ==
    LET i == CHOOSE x \in PatternStarts(msg) : \A y \in PatternStarts(msg) : x <= y
        n == CHOOSE m \in 4..12 : PatternAt(msg, i, m)
    IN  SubSeq(msg, i + 2, i + 1 + n)

Present(str) == str # Null /\ str # <<>>

ReqAuthorized(req) ==
    req.route = "alert" => (webhookSecret = Null \/ req.secret = webhookSecret)

ReqMessage(req) ==
    IF req.route = "alert"
    THEN (IF Present(req.message) THEN req.message ELSE req.Body)
    ELSE (IF Present(req.message) THEN Trim(req.message) ELSE <<>>)

ReqSender(req) ==
    IF req.route = "alert"
    THEN (IF Present(req.from) THEN req.from ELSE req.From)
    ELSE req.from

Requests == AlertRequests \cup ReplyRequests

\* Whether the message of a request to the reply route holds a pattern.
ReqHasPattern ==
    [req \in Requests |->
        req.route = "reply" /\ PatternStarts(ReqMessage(req)) # {}]

\* The handoffs each request names: one, or none.
ReqTargets ==
    [req \in Requests |->
        IF req.route = "alert"
        THEN (IF ~Present(ReqMessage(req)) THEN {}
              ELSE {req.handoff_id, req.handoffId} \ {0})
        ELSE (IF ~ReqHasPattern[req] THEN {}
              ELSE {r.handoff_id : r \in {x \in HandoffTokens :
                                             x.token = FirstToken(ReqMessage(req))}})]

ExpectedSnapshot(req) ==
    IF Present(ReqSender(req))
    THEN <<"s","m","s",":">> \o ReqSender(req)
    ELSE <<"s","m","s">>

OneSmsRowAppended(req, y) ==
    /\ Len(dbUpdates') = Len(dbUpdates) + 1
    /\ SubSeq(dbUpdates', 1, Len(dbUpdates)) = dbUpdates
    /\ LET row == dbUpdates'[Len(dbUpdates')]
       IN  /\ row.handoff_id = y
           /\ row.source = "sms"
           /\ row.author_user_id = NoUser
           /\ row.author_display_name_snapshot = ExpectedSnapshot(req)

C9_Step(req) ==
    /\ (/\ ReqAuthorized(req)
        /\ ~req.malformed
        /\ req.failing = "none"
        /\ ReqTargets[req] # {})
          => /\ \E y \in ReqTargets[req] : OneSmsRowAppended(req, y)
             /\ Cardinality(ReqTargets[req]) = 1
             /\ relayReply' = ReplyOk
    /\ relayReply'.status = 200 =>
          /\ ReqTargets[req] # {}
          /\ Len(dbUpdates') = Len(dbUpdates) + 1
    /\ Len(dbUpdates') <= Len(dbUpdates) + 1
    /\ SubSeq(dbUpdates', 1, Len(dbUpdates)) = dbUpdates

C9_RelaySuccess ==
    [][relayReq'.route \in {"alert", "reply"} => C9_Step(relayReq')]_vars

\* The reply " ok H:AB12 " from a sender was stored on handoff 1, after the
\* row that existed, and answered ok.
C9_Witness ==
    /\ relayReq.route = "reply"
    /\ relayReq.message = <<" ","o","k"," ","H",":","A","B","1","2"," ">>
    /\ relayReq.from = Sender
    /\ relayReply = ReplyOk
    /\ Len(dbUpdates) = 2
    /\ dbUpdates[2].handoff_id = 1
    /\ dbUpdates[2].source = "sms"
    /\ dbUpdates[2].author_display_name_snapshot = <<"s","m","s",":","+","1","5">>

(***************************************************************************)
(* C10: inbound SMS relay, failure paths write nothing.  On the reply      *)
(* route a message without an H: pattern of 4 to 12 alphanumerics (tokens  *)
(* of 3 or 13 characters included) is answered 400 and a message whose     *)
(* first pattern has no mapping is answered 404; on the alert route a      *)
(* request that passes the secret check and lacks the handoff id or the    *)
(* message is answered 400.  In each case, and in every step not answered  *)
(* ok, handoff_updates is unchanged.                                       *)
(***************************************************************************)
C10_Step(req) ==
    /\ (req.route = "reply" /\ ~req.malformed /\ ~ReqHasPattern[req])
          => relayReply'.status = 400 /\ dbUpdates' = dbUpdates
    /\ (/\ req.route = "reply"
        /\ ~req.malformed
        /\ ReqHasPattern[req]
        /\ ReqTargets[req] = {})
          => relayReply'.status = 404 /\ dbUpdates' = dbUpdates
    /\ (/\ req.route = "alert"
        /\ ReqAuthorized(req)
        /\ ~req.malformed
        /\ ({req.handoff_id, req.handoffId} \ {0} = {} \/ ~Present(ReqMessage(req))))
          => relayReply'.status = 400 /\ dbUpdates' = dbUpdates
    /\ relayReply'.status # 200 => dbUpdates' = dbUpdates

C10_RelayFailuresWriteNothing ==
    [][relayReq'.route \in {"alert", "reply"} => C10_Step(relayReq')]_vars

\* A reply whose token has 13 characters was answered 400, nothing stored.
C10_Witness ==
    /\ relayReq.route = "reply"
    /\ relayReq.message =
          <<"H",":","a","b","c","d","e","f","g","h","1","2","3","4","5">>
    /\ relayReply = Reply(400, MissingToken)
    /\ dbUpdates = SeedUpdates

(***************************************************************************)
(* C11: shared-secret validation on the relay endpoints.  When             *)
(* SMS_WEBHOOK_SECRET is set, every request to a relay endpoint (alert by  *)
(* handoff id, reply by token, notify) whose x-webhook-secret header is    *)
(* absent or differs from the secret is answered 401 and inserts no row    *)
(* (C11_SecretValidatedOnEveryRelay).  The alert and notify routes do so   *)
(* (C11_SecretValidatedOnAlertAndNotify); the reply route never reads the  *)
(* header.                                                                 *)
(***************************************************************************)
SecretMissingOrWrong(req) ==
    webhookSecret # Null /\ (req.secret = Null \/ req.secret # webhookSecret)

C11_Rejected == relayReply'.status = 401 /\ dbUpdates' = dbUpdates

C11_SecretValidatedOnEveryRelay ==
    [][(relayReq'.route \in {"alert", "reply", "notify"}
          /\ SecretMissingOrWrong(relayReq')) => C11_Rejected]_vars

C11_SecretValidatedOnAlertAndNotify ==
    [][(relayReq'.route \in {"alert", "notify"}
          /\ SecretMissingOrWrong(relayReq')) => C11_Rejected]_vars

\* With the secret set, a reply carrying another secret was answered ok and
\* its row was stored.
C11_Witness ==
    /\ webhookSecret = TheSecret
    /\ relayReq.route = "reply"
    /\ relayReq.secret = WrongSecret
    /\ relayReply = ReplyOk
    /\ Len(dbUpdates) = Len(SeedUpdates) + 1
    /\ dbUpdates[Len(dbUpdates)].source = "sms"

(***************************************************************************)
(* C12: outbound alert audit.  An authorized, well-formed request with     *)
(* priority "medium" or "low" inserts no row and is answered ok, skipped.  *)
(* An authorized request with priority "high" that the backend accepts     *)
(* inserts exactly one row, after the rows that existed, for the handoff   *)
(* of the request, with source "system", whose message is the fixed        *)
(* prefix, the bracketed location when one is given, ": " and then the     *)
(* first 120 characters of the summary (the whole summary when shorter,    *)
(* nothing when there is none); it is answered ok, alerted.  No notify     *)
(* request inserts a row unless it is answered ok, alerted.                *)
(***************************************************************************)
NotifyAuthorized(req) == webhookSecret = Null \/ req.secret = webhookSecret

C12_Head(req) ==
    NotifyPrefix
        \o (IF Present(req.location_code)
            THEN <<" ","[">> \o req.location_code \o <<"]">>
            ELSE <<>>)
        \o <<":"," ">>

C12_Summary(req) == IF Present(req.summary) THEN req.summary ELSE <<>>

C12_OneSystemRow(req) ==
    /\ Len(dbUpdates') = Len(dbUpdates) + 1
    /\ SubSeq(dbUpdates', 1, Len(dbUpdates)) = dbUpdates
    /\ LET row  == dbUpdates'[Len(dbUpdates')]
           head == C12_Head(req)
           tail == SubSeq(row.message, Len(head) + 1, Len(row.message))
       IN  /\ row.handoff_id = req.handoff_id
           /\ row.source = "system"
           /\ row.author_user_id = NoUser
           /\ IsPrefix(head, row.message)
           /\ IsPrefix(tail, C12_Summary(req))
           /\ Len(tail) <= 120
           /\ Len(tail) = 120 \/ tail = C12_Summary(req)

C12_Step(req) ==
    /\ (/\ NotifyAuthorized(req)
        /\ ~req.malformed
        /\ req.handoff_id # 0
        /\ req.priority \in {<<"m","e","d","i","u","m">>, <<"l","o","w">>})
          => relayReply' = ReplySkipped /\ dbUpdates' = dbUpdates
    /\ (/\ NotifyAuthorized(req)
        /\ ~req.malformed
        /\ req.handoff_id # 0
        /\ req.priority = <<"h","i","g","h">>
        /\ req.failing = "none")
          => relayReply' = ReplyAlerted /\ C12_OneSystemRow(req)
    /\ relayReply' # ReplyAlerted => dbUpdates' = dbUpdates

C12_OutboundAlertAudit ==
    [][relayReq'.route = "notify" => C12_Step(relayReq')]_vars

\* A high-priority request with a summary of 125 characters and a location
\* was answered ok, alerted, and its row holds the first 120 characters.
C12_Witness ==
    /\ relayReq.route = "notify"
    /\ relayReq.priority = StrHigh
    /\ relayReq.summary = LongSummary
    /\ relayReq.location_code = LocationCode
    /\ relayReply = ReplyAlerted
    /\ Len(dbUpdates) = Len(SeedUpdates) + 1
    /\ dbUpdates[Len(dbUpdates)].source = "system"
    /\ Len(dbUpdates[Len(dbUpdates)].message) = Len(NotifyPrefix) + 5 + 2 + 120

(***************************************************************************)
(* C13: onboarding gate on the feed.  In every run of loadSessionAndFeed() *)
(* of a signed-in user whose profile is absent or has a display name or a  *)
(* shift that is empty after trimming, the step that receives the profile  *)
(* issues no handoffs query and leaves the router at onboarding (unless    *)
(* the profiles query itself failed, which shows the error).  A handoffs   *)
(* query is issued only by the step of the same run that received a        *)
(* complete profile, and none is in flight or answered for a run whose     *)
(* user's profile is incomplete.                                           *)
(***************************************************************************)
ProfileIncomplete(prof) ==
    \/ prof = NoProfile
    \/ ~Present(prof.display_name)
    \/ ~Present(prof.shift)
    \/ \A i \in 1..Len(prof.display_name) : prof.display_name[i] \in WhiteSpace
    \/ \A i \in 1..Len(prof.shift) : prof.shift[i] \in WhiteSpace

HandoffsQueryOut(l) == fLoads[l].pc \in {"handoffs", "answered", "failed"}

C13_Step(l) ==
    /\ (fLoads[l].pc = "profiles" /\ fLoads'[l].pc # "profiles"
          /\ ProfileIncomplete(ProfileOf(dbProfiles, fLoads[l].uid)))
          => /\ ~HandoffsQueryOut(l)'
             /\ feedRoute' = "onboarding" \/ feedError' = BackendError
    /\ (HandoffsQueryOut(l)' /\ ~HandoffsQueryOut(l))
          => /\ fLoads[l].pc = "profiles"
             /\ fLoads[l].uid = session
             /\ session # NoUser
             /\ ~ProfileIncomplete(ProfileOf(dbProfiles, session))
             /\ feedRoute' = feedRoute

C13_OnboardingGate ==
    /\ [][\A l \in LoadSlots : C13_Step(l)]_vars
    /\ [](\A l \in LoadSlots :
             HandoffsQueryOut(l) => ~ProfileIncomplete(ProfileOf(dbProfiles, fLoads[l].uid)))

\* A user whose display name is blank was sent to onboarding; no run of the
\* load has a handoffs query out and the list was never filled.
C13_Witness ==
    /\ session = "u1"
    /\ ProfileOf(dbProfiles, "u1").display_name = <<" ">>
    /\ feedRoute = "onboarding"
    /\ feedHandoffs = <<>>
    /\ \A l \in LoadSlots : fLoads[l].pc = "idle"

(***************************************************************************)
(* C14: create always writes status "open".  Every handoffs row the create *)
(* screens insert has status "open" and created_by equal to the id of the  *)
(* signed-in user, whatever was typed or chosen in the form; every insert  *)
(* request in flight carries the same.                                     *)
(***************************************************************************)
C14_CreateWritesOpen ==
    /\ \A i \in 1..Len(dbHandoffs) :
          /\ dbHandoffs[i].status = <<"o","p","e","n">>
          /\ dbHandoffs[i].created_by = session
          /\ session \in Users
    /\ create.req # NoInsert =>
          /\ create.req.status = <<"o","p","e","n">>
          /\ create.req.created_by = session
          /\ session \in Users

\* The older screen stored a handoff typed with priority "high", a padded
\* category and a blank snapshot.
C14_Witness ==
    /\ create.variant = "old"
    /\ Len(dbHandoffs) = 1
    /\ dbHandoffs[1].priority = StrHigh
    /\ dbHandoffs[1].category = StrEquipment
    /\ dbHandoffs[1].created_by_display_name_snapshot = Null
    /\ dbHandoffs[1].status = StrOpen
    /\ dbHandoffs[1].created_by = "u1"

(***************************************************************************)
(* C15: create validation blocks before any request.  onCreate sends an    *)
(* insert only from a form whose user is the signed-in user, whose trimmed *)
(* summary has at least 5 characters, whose category and priority are      *)
(* non-empty and whose trimmed location is non-empty, and, in the          *)
(* enum-driven screen, after the enumerations were loaded.  A step that    *)
(* shows one of the validation errors sends no request and leaves the      *)
(* handoffs table unchanged.                                               *)
(***************************************************************************)
C15_FormValid(c) ==
    /\ c.user \in Users
    /\ c.user = session
    /\ \E i \in 1..Len(c.summary), j \in 1..Len(c.summary) :
          /\ j - i + 1 >= 5
          /\ c.summary[i] \notin WhiteSpace
          /\ c.summary[j] \notin WhiteSpace
    /\ Present(c.category)
    /\ Present(c.priority)
    /\ \E i \in 1..Len(c.locationCode) : c.locationCode[i] \notin WhiteSpace
    /\ c.variant = "enums" => c.enumsLoaded

C15_ValidationErrors ==
    {MsgNotInitialized, MsgNotSignedIn, MsgFillRequired, MsgFillRequiredOld}

C15_Step ==
    /\ (create'.req # NoInsert /\ create.req = NoInsert) => C15_FormValid(create)
    /\ (create'.errorMsg \in C15_ValidationErrors /\ create'.errorMsg # create.errorMsg)
          => /\ create'.req = NoInsert
             /\ ~create'.submitting
             /\ dbHandoffs' = dbHandoffs
    /\ dbHandoffs' # dbHandoffs => create.req # NoInsert

C15_CreateValidationBlocks == [][C15_Step]_vars

\* The enum-driven screen, signed in and loaded, refused a summary of 4
\* characters padded to 7: the error is shown, nothing was sent or stored.
C15_Witness ==
    /\ create.variant = "enums"
    /\ create.user = "u1"
    /\ create.enumsLoaded
    /\ create.summary = <<" ","b","e","d","4"," "," ">>
    /\ create.errorMsg = MsgFillRequired
    /\ create.req = NoInsert
    /\ dbHandoffs = <<>>

(***************************************************************************)
(* C16: profile save.  save() sends an upsert only when the display name,  *)
(* trimmed and upper-cased, has 2 to 10 characters; when it has fewer or   *)
(* more, the error is shown and nothing is sent.  Every upsert sent, and   *)
(* every profiles row stored, has a display name of 2 to 10 characters     *)
(* with no lower-case letter and no blank at either end and a shift among  *)
(* AM, PM, NOC; the role sent is "CS" when the role typed is blank and the *)
(* trimmed role otherwise; the row sent is keyed by the signed-in user's   *)
(* id, no user ever has two rows, and the row of another user is left as   *)
(* it was.                                                                 *)
(***************************************************************************)
C16_NameOK(dn) ==
    /\ Len(dn) >= 2
    /\ Len(dn) <= 10
    /\ dn[1] \notin WhiteSpace
    /\ dn[Len(dn)] \notin WhiteSpace
    /\ \A i \in 1..Len(dn) : dn[i] \notin {"a","b","c","d","e","f","g","h","i","j","k","m"}

\* The characters of the typed name between its first and last non-blank.
C16_TrimmedLen(text) ==
    LET solid == {i \in 1..Len(text) : text[i] \notin WhiteSpace}
    IN  IF solid = {} THEN 0
        ELSE (CHOOSE j \in solid : \A k \in solid : k <= j)
               - (CHOOSE i \in solid : \A k \in solid : k >= i) + 1

C16_Blank(text) == \A i \in 1..Len(text) : text[i] \in WhiteSpace

C16_Sent == onboard'.reqs \ onboard.reqs

C16_Step ==
    /\ \A p \in C16_Sent :
          /\ C16_TrimmedLen(onboard.displayName) \in 2..10
          /\ C16_NameOK(p.display_name)
          /\ Len(p.display_name) = C16_TrimmedLen(onboard.displayName)
          /\ p.shift \in {<<"A","M">>, <<"P","M">>, <<"N","O","C">>}
          /\ C16_Blank(onboard.role) => p.role = <<"C","S">>
          /\ ~C16_Blank(onboard.role) => (p.role # <<>> /\ IsTrimOf(p.role, onboard.role))
          /\ p.user_id = session
          /\ session \in Users
    /\ (onboard'.errorMsg = MsgInitials /\ onboard.errorMsg # MsgInitials)
          => /\ C16_TrimmedLen(onboard.displayName) \notin 2..10
             /\ C16_Sent = {}
             /\ dbProfiles' = dbProfiles
    /\ C16_TrimmedLen(onboard.displayName) \notin 2..10 => C16_Sent = {}

C16_Stored ==
    /\ \A i \in 1..Len(dbProfiles) :
          /\ C16_NameOK(dbProfiles[i].display_name)
          /\ dbProfiles[i].shift \in {<<"A","M">>, <<"P","M">>, <<"N","O","C">>}
          /\ dbProfiles[i].role # <<>>
          /\ \A j \in 1..Len(dbProfiles) :
                dbProfiles[i].user_id = dbProfiles[j].user_id => i = j
    /\ \E i \in 1..Len(dbProfiles) : dbProfiles[i] = OtherProfile

C16_ProfileSave == [][C16_Step]_vars /\ []C16_Stored

\* A user who had the profile KM / AM saved " abcdefghij" with a blank role
\* and the shift NOC: their one row now reads ABCDEFGHIJ, CS, NOC.
C16_Witness ==
    /\ onboard.route = "feed"
    /\ Len(dbProfiles) = 2
    /\ dbProfiles[2] = [user_id |-> "u1",
                        display_name |-> <<"A","B","C","D","E","F","G","H","I","J">>,
                        role |-> <<"C","S">>,
                        shift |-> <<"N","O","C">>]

(***************************************************************************)
(* C17: append-only history.  No operation of the system (create, append,  *)
(* resolve from the detail screen or through the endpoint, the SMS relays, *)
(* the alert audit, the profile save) removes a handoffs row or a          *)
(* handoff_updates row, and every update row keeps its id, handoff id,     *)
(* author, author snapshot, source, message and time: each step leaves the *)
(* updates table as it was or longer by rows at its end, and the handoffs  *)
(* table with every row it had, under the same id.                         *)
(***************************************************************************)
C17_Step ==
    /\ Len(dbUpdates') >= Len(dbUpdates)
    /\ \A i \in 1..Len(dbUpdates) :
          /\ dbUpdates'[i].id = dbUpdates[i].id
          /\ dbUpdates'[i].handoff_id = dbUpdates[i].handoff_id
          /\ dbUpdates'[i].author_user_id = dbUpdates[i].author_user_id
          /\ dbUpdates'[i].author_display_name_snapshot
                = dbUpdates[i].author_display_name_snapshot
          /\ dbUpdates'[i].source = dbUpdates[i].source
          /\ dbUpdates'[i].message = dbUpdates[i].message
          /\ dbUpdates'[i].created_at = dbUpdates[i].created_at
    /\ Len(dbHandoffs') >= Len(dbHandoffs)
    /\ \A i \in 1..Len(dbHandoffs) :
          /\ dbHandoffs'[i].id = dbHandoffs[i].id
          /\ dbHandoffs'[i].created_at = dbHandoffs[i].created_at

C17_AppendOnlyHistory == [][C17_Step]_vars

\* A handoff was created, handoff 1 was closed through the endpoint (whose
\* audit row is the second update row), and a profile was saved: the two
\* handoffs and the update row that existed are still there.
C17_Witness ==
    /\ Len(dbHandoffs) = 3
    /\ dbHandoffs[3].created_by = "u1"
    /\ dbHandoffs[1].status = StrClosed
    /\ dbHandoffs[2].id = 2
    /\ Len(dbUpdates) = 2
    /\ dbUpdates[1] = SeedUpdates[1]
    /\ dbUpdates[2].source = "system"
    /\ Len(dbProfiles) = 1

(***************************************************************************)
(* C18: stored status stays canonical.  Starting from handoffs whose       *)
(* status is open, needs_followup or resolved, after any sequence of the   *)
(* system's operations every stored status is one of the three.            *)
(***************************************************************************)
C18_StoredStatusCanonical ==
    \A i \in 1..Len(dbHandoffs) :
       dbHandoffs[i].status \in
          {<<"o","p","e","n">>,
           <<"n","e","e","d","s","_","f","o","l","l","o","w","u","p">>,
           <<"r","e","s","o","l","v","e","d">>}

\* The resolve endpoint answered ok for handoff 1, which is now stored with
\* the status "closed".
C18_Witness ==
    /\ relayReq.route = "resolve"
    /\ relayReply = ReplyOk
    /\ dbHandoffs[1].status = <<"c","l","o","s","e","d">>

(***************************************************************************)
(* C19: reload instead of patch.  After every successful resolve or append *)
(* on the detail screen a full reload of the handoff and its updates is    *)
(* issued, and the screen's handoff and updates change only when a reload  *)
(* answers, never by a local patch; after a failed resolve or append no    *)
(* reload is issued.                                                       *)
(***************************************************************************)
AddAnswered(s) == dAdd[s] # NoPayload /\ dAdd'[s] = NoPayload

AddSucceeded(s) == AddAnswered(s) /\ Len(dbUpdates') = Len(dbUpdates) + 1

ResolveSucceeded(s) == ResolveAnswered(s) /\ toast'[s] = ToastMarkedResolved

\* load() was called by the handler: it is in flight and the screen is loading.
ReloadIssued(s, caller) ==
    /\ caller \notin dLoads[s]
    /\ dLoads'[s] = dLoads[s] \cup {caller}
    /\ dLoading'[s]

\* A load of the screen answered.
ReloadAnswered(s) == dLoads'[s] # dLoads[s] /\ dLoads'[s] \subseteq dLoads[s]

\* What the screen shows of the backend is what it showed before.
ShownDataKept(s) == dHandoff'[s] = dHandoff[s] /\ dUpdates'[s] = dUpdates[s]

\* A successful write issues a reload, a failed one does not.
C19_ReloadStep(s) ==
    /\ AddSucceeded(s) => ReloadIssued(s, "addUpdate")
    /\ ResolveSucceeded(s) => ReloadIssued(s, "markResolved")
    /\ (AddAnswered(s) /\ ~AddSucceeded(s)) =>
          dLoads'[s] = dLoads[s] /\ dLoading'[s] = dLoading[s] /\ ShownDataKept(s)
    /\ (ResolveAnswered(s) /\ ~ResolveSucceeded(s)) =>
          dLoads'[s] = dLoads[s] /\ dLoading'[s] = dLoading[s] /\ ShownDataKept(s)

\* A reload that answers without an error shows what the backend holds.
C19_ReloadShows(s) ==
    (ReloadAnswered(s) /\ ~ShownDataKept(s)) =>
        /\ dHandoff'[s] = dbHandoffs[dId[s]]
        /\ dUpdates'[s] \in UpdatesQueryResults(dbUpdates, dId[s])

C19_Patched(s) ==
    /\ dHandoff'[s] = [dHandoff[s] EXCEPT !.status = StrResolved,
                                          !.last_update_at = dRes[s].now]
    /\ dUpdates'[s] = dUpdates[s]

FeedQuiescent ==
    /\ FeedShown
    /\ \A l \in LoadSlots : fLoads[l] = NoLoad
    /\ fNotes = 0
    /\ ~feedLoading
    /\ feedError = NoMsg
    /\ session # NoUser

C20_QuiescentFeedCurrent ==
    FeedQuiescent => feedHandoffs \in HandoffsQueryResults(dbHandoffs)

\* The part about notifications: a delivered notification starts a run of
\* loadSessionAndFeed() from its first line.
C20_NotificationReloads ==
    [][fNotes' < fNotes =>
          /\ feedLoading'
          /\ feedError' = NoMsg
          /\ \E l \in LoadSlots :
                /\ fLoads[l] = NoLoad
                /\ fLoads'[l].pc = "getSession"]_vars

\* Another client created a handoff and the feed was notified and reloaded,
\* yet with every load completed the list in memory lacks the new handoff: the
\* answer of an older load arrived after the answer of the newer one.
C20_Witness ==
    /\ FeedQuiescent
    /\ Len(dbHandoffs) = 2
    /\ Len(feedHandoffs) = 1
    /\ feedUserId = "u1"

(***************************************************************************)
(* C21: session check on entry.  Every screen (feed, detail, create,       *)
(* onboarding) that finds no active session on entry redirects to the      *)
(* sign-in screen and loads no handoff, update or profile data.            *)
(***************************************************************************)
\* The entry of a screen has run to its end and met no error of the backend.
FeedEntered == (\A l \in LoadSlots : fLoads[l] = NoLoad) /\ feedError = NoMsg

DetailEntered(s) == dId[s] # 0 /\ dLoads[s] = {}

CreateEntered == create.boot = "done" /\ create.supabase

OnboardEntered == onboard.boot = "done" /\ onboard.errorMsg = NoMsg

\* No data of the backend is in a screen or on its way to one.
C21_NoDataLoaded ==
    /\ feedHandoffs = <<>>
    /\ \A l \in LoadSlots : fLoads[l].pc \in {"idle", "getSession"}
    /\ \A s \in Screens : dHandoff[s] = NoRow /\ dUpdates[s] = <<>>
    /\ create.user = NoUser /\ create.categoryOptions = <<>> /\ ~create.enumsLoaded
    /\ onboard.userId = NoUser /\ onboard.displayName = <<>> /\ onboard.boot # "profiles"

C21_SessionCheckOnEntry ==
    session = NoUser =>
       /\ C21_NoDataLoaded
       /\ FeedEntered => feedRoute = "auth"
       /\ \A s \in Screens : DetailEntered(s) => dRoute[s] = "auth"
       /\ CreateEntered => create.route = "auth"
       /\ OnboardEntered => onboard.route = "auth"

\* What holds of the code: without a session no screen loads data, and the
\* onboarding screen redirects to the sign-in screen.
C21_NoSessionNoData ==
    session = NoUser =>
       /\ C21_NoDataLoaded
       /\ OnboardEntered => onboard.route = "auth"

\* Without a session every screen was entered: the onboarding screen went to
\* the sign-in screen, the other three stayed where they were, the detail
\* screen with "Not signed in.".
C21_Witness ==
    /\ session = NoUser
    /\ FeedEntered /\ DetailEntered("tabA") /\ CreateEntered /\ OnboardEntered
    /\ onboard.route = "auth"
    /\ feedRoute = "feed" /\ ~feedLoading
    /\ dRoute["tabA"] = "detail" /\ dError["tabA"] = NotSignedIn
    /\ create.route = "create" /\ create.ready
    /\ C21_NoDataLoaded

(***************************************************************************)
(* C22: onboarding gate on the detail screen.  The detail screen checks    *)
(* that the profile is complete (display name and shift not empty) before  *)
(* it loads or shows a handoff and its updates: an actor whose profile is  *)
(* incomplete never has handoff data on the detail screen.                 *)
(***************************************************************************)
C22_DetailOnboardingGate ==
    (session # NoUser /\ ProfileIncomplete(ProfileOf(dbProfiles, session))) =>
        \A s \in Screens : dHandoff[s] = NoRow /\ dUpdates[s] = <<>>

\* The signed-in user's profile is incomplete: the feed sent them to
\* onboarding, the detail screen shows handoff 1 and its update.
C22_Witness ==
    /\ session = "u1"
    /\ ProfileIncomplete(ProfileOf(dbProfiles, session))
    /\ feedRoute = "onboarding"
    /\ DetailEntered("tabA")
    /\ dRoute["tabA"] = "detail"
    /\ dError["tabA"] = NoMsg
    /\ dHandoff["tabA"] = dbHandoffs[1]
    /\ Len(dUpdates["tabA"]) = 1

(***************************************************************************)
(* C23: the outbound alert audit writes only for priority exactly "high".  *)
(* For every authorized request whose priority string is anything other    *)
(* than exactly "high" (a value differing only in letter case, say), no    *)
(* update row is inserted and the response is ok with skipped.             *)
(***************************************************************************)
\* An authorized request to the notify route that names a handoff and a
\* priority and whose body parses.
NotifyAdmitted(req) ==
    /\ req.route = "notify"
    /\ NotifyAuthorized(req)
    /\ ~req.malformed
    /\ req.handoff_id # 0
    /\ Present(req.priority)

\* The letters h, i, g, h, each in either case.
HighInAnyCase(p) ==
    /\ Len(p) = 4
    /\ p[1] \in {"h", "H"} /\ p[2] \in {"i", "I"}
    /\ p[3] \in {"g", "G"} /\ p[4] \in {"h", "H"}

C23_OnlyExactlyHighWrites ==
    [][(NotifyAdmitted(relayReq') /\ relayReq'.priority # <<"h","i","g","h">>) =>
          relayReply' = ReplySkipped /\ dbUpdates' = dbUpdates]_vars

\* As the code has it: the priority is compared in lower case.
C23_OnlyHighInAnyCaseWrites ==
    [][NotifyAdmitted(relayReq') =>
          /\ ~HighInAnyCase(relayReq'.priority) =>
                relayReply' = ReplySkipped /\ dbUpdates' = dbUpdates
          /\ (HighInAnyCase(relayReq'.priority) /\ relayReq'.failing = "none") =>
                relayReply' = ReplyAlerted /\ C12_OneSystemRow(relayReq')]_vars

\* A request with the priority "High" was answered ok, alerted, and its row
\* is in the table.
C23_Witness ==
    /\ NotifyAdmitted(relayReq)
    /\ relayReq.priority = <<"H","i","g","h">>
    /\ relayReply = ReplyAlerted
    /\ Len(dbUpdates) = Len(SeedUpdates) + 1
    /\ dbUpdates[Len(dbUpdates)].source = "system"
    /\ dbUpdates[Len(dbUpdates)].handoff_id = relayReq.handoff_id

(***************************************************************************)
(* C24: appending an update touches its handoff.  After an update is       *)
(* appended to a handoff (from the detail screen, an SMS relay or the      *)
(* alert audit), the handoff's last_update_at is the time of the append    *)
(* and its last_update_by_snapshot is the author snapshot of the update.   *)
(***************************************************************************)
\* A row was appended to handoff_updates in this step.
UpdateAppended == Len(dbUpdates') = Len(dbUpdates) + 1

\* The column last_update_by_snapshot of a handoffs row: null in a row no
\* writer gave it to.
LastUpdateBy(row) ==
    IF "last_update_by_snapshot" \in DOMAIN row THEN row.last_update_by_snapshot ELSE Null

C24_AppendTouchesHandoff ==
    [][UpdateAppended =>
          LET u == dbUpdates'[Len(dbUpdates')]
          IN  u.handoff_id \in 1..Len(dbHandoffs') =>
                 /\ dbHandoffs'[u.handoff_id].last_update_at = u.created_at
                 /\ LastUpdateBy(dbHandoffs'[u.handoff_id])
                       = u.author_display_name_snapshot]_vars

\* What the code does: an append leaves the last-update fields of every
\* handoff as they were.
C24_AppendLeavesLastUpdate ==
    [][UpdateAppended =>
          /\ Len(dbHandoffs') = Len(dbHandoffs)
          /\ \A i \in 1..Len(dbHandoffs) :
                /\ dbHandoffs'[i].last_update_at = dbHandoffs[i].last_update_at
                /\ LastUpdateBy(dbHandoffs'[i]) = LastUpdateBy(dbHandoffs[i])]_vars

\* An SMS for handoff 2 was relayed and its row appended; handoff 2 still has
\* no last update.
C24_Witness ==
    /\ relayReq.route = "alert"
    /\ relayReply = ReplyOk
    /\ Len(dbUpdates) = Len(SeedUpdates) + 1
    /\ dbUpdates[Len(dbUpdates)].handoff_id = 2
    /\ dbUpdates[Len(dbUpdates)].source = "sms"
    /\ dbHandoffs[2].last_update_at = NullTime
    /\ LastUpdateBy(dbHandoffs[2]) = Null

(***************************************************************************)
(* C25: one definition of resolved on every screen.  For every status      *)
(* value the feed screens and the detail screen give the same answer to    *)
(* "is this handoff resolved": true exactly when the status, trimmed and   *)
(* in lower case, is "resolved"; no screen takes another value, such as    *)
(* "closed", for resolved.                                                 *)
(***************************************************************************)
\* The status typed as the word resolved, in any case, white space around it.
TypedResolved == rawParts.base = <<"r","e","s","o","l","v","e","d">>

C25_OneDefinitionOfResolved ==
    /\ isResolvedStatus(rawStatus) = TypedResolved
    /\ isResolvedStatusFeed2(rawStatus) = TypedResolved
    /\ isResolvedStatusDetail(rawStatus) = TypedResolved
    /\ isResolvedStatusPage(rawStatus) = TypedResolved

\* What holds: the two later feed screens and the detail screen agree.
C25_ThreeScreensAgree ==
    /\ isResolvedStatus(rawStatus) = TypedResolved
    /\ isResolvedStatusFeed2(rawStatus) = TypedResolved
    /\ isResolvedStatusDetail(rawStatus) = TypedResolved

\* The status "closed" was rendered: the first feed screen takes it for
\* resolved, the pill of the later feed screen shows it as open.
C25_Witness ==
    /\ rawStatus = <<"c","l","o","s","e","d">>
    /\ pill.label = "OPEN"
    /\ isResolvedStatusPage(rawStatus)
    /\ ~isResolvedStatusDetail(rawStatus)

(***************************************************************************)
(* C26: the resolve endpoint is all-or-nothing.  Whenever it answers with  *)
(* an error, the handoff's status is unchanged and no audit update was     *)
(* inserted; whenever it answers ok, the handoff is closed and exactly one *)
(* system audit update was appended for that handoff.                      *)
(***************************************************************************)
\* The stored status of handoff id in table.
StoredStatus(table, id) ==
    {table[i].status : i \in {j \in 1..Len(table) : table[j].id = id}}

\* Exactly one row was appended, a system row of the request's handoff.
OneAuditRowAppended ==
    /\ Len(dbUpdates') = Len(dbUpdates) + 1
    /\ SubSeq(dbUpdates', 1, Len(dbUpdates)) = dbUpdates
    /\ dbUpdates'[Len(dbUpdates')].source = "system"
    /\ dbUpdates'[Len(dbUpdates')].handoff_id = relayReq'.handoff_id
    /\ dbUpdates'[Len(dbUpdates')].message = ResolvedByPrefix \o Email(relayReq'.user)

C26_Step ==
    IF relayReply'.status = 200
    THEN /\ StoredStatus(dbHandoffs', relayReq'.handoff_id) = {StrClosed}
         /\ OneAuditRowAppended
    ELSE /\ dbHandoffs' = dbHandoffs
         /\ dbUpdates' = dbUpdates

C26_ResolveAllOrNothing == [][C26_Step]_vars

\* What holds: an ok answer is complete, and an error answer wrote nothing
\* unless it is the audit insert that failed.
C26_PartialStep ==
    IF relayReply'.status = 200
    THEN /\ StoredStatus(dbHandoffs', relayReq'.handoff_id) = {StrClosed}
         /\ OneAuditRowAppended
    ELSE /\ dbUpdates' = dbUpdates
         /\ dbHandoffs' # dbHandoffs =>
               /\ relayReq'.failing = "insert"
               /\ relayReply' = Reply(500, BackendError)

C26_AllOrNothingUnlessInsertFails == [][C26_PartialStep]_vars

\* The endpoint answered 500 for a failed audit insert and handoff 1 is
\* closed without an audit row.
C26_Witness ==
    /\ relayReq.route = "resolve"
    /\ relayReq.failing = "insert"
    /\ relayReply.status = 500
    /\ StoredStatus(dbHandoffs, 1) = {StrClosed}
    /\ \A i \in 1..Len(dbUpdates) : dbUpdates[i].source # "system"

(***************************************************************************)
(* C27: the resolve endpoint requires a valid session.  It writes to       *)
(* handoffs and handoff_updates only for a request that carries a bearer   *)
(* token the identity provider accepts and a handoff id; a missing or      *)
(* invalid token is answered 401, a missing handoff id 400, both without   *)
(* any write.                                                              *)
(***************************************************************************)
C27_Step ==
    /\ (dbHandoffs' # dbHandoffs \/ dbUpdates' # dbUpdates) =>
          /\ relayReq'.bearer # "none"
          /\ relayReq'.user # NoUser
          /\ relayReq'.handoff_id # 0
    /\ (relayReq'.bearer = "none" \/ relayReq'.user = NoUser) =>
          /\ relayReply'.status = 401
          /\ dbHandoffs' = dbHandoffs
          /\ dbUpdates' = dbUpdates
    /\ (relayReq'.user # NoUser /\ ~relayReq'.malformed /\ relayReq'.handoff_id = 0) =>
          /\ relayReply' = Reply(400, HandoffIdRequired)
          /\ dbHandoffs' = dbHandoffs
          /\ dbUpdates' = dbUpdates

C27_ResolveRequiresSession == [][C27_Step]_vars

\* A request with a token the identity provider rejects was answered 401 and
\* nothing is closed or audited.
C27_Witness ==
    /\ relayReq.route = "resolve"
    /\ relayReq.bearer = "token-x"
    /\ relayReq.handoff_id = 2
    /\ relayReply = Reply(401, InvalidSession)
    /\ StoredStatus(dbHandoffs, 2) = {StrOpen}
    /\ \A i \in 1..Len(dbUpdates) : dbUpdates[i].source # "system"

(***************************************************************************)
(* C28: sign-out leaves no handoff data behind.  In every state of the     *)
(* feed in which the user id is null and no load is in flight, the         *)
(* in-memory handoff list is empty, also when the session ended while an   *)
(* earlier load's handoffs query was still in flight.                      *)
(***************************************************************************)
NoLoadInFlight == \A l \in LoadSlots : fLoads[l].pc = "idle"

C28_SignOutLeavesNoData ==
    (feedUserId = NoUser /\ NoLoadInFlight) => feedHandoffs = <<>>

\* What holds: the screen's own signOut() leaves nothing behind.
C28_OwnSignOutClears ==
    feedRoute = "auth" => (feedUserId = NoUser /\ feedHandoffs = <<>>)

\* The feed is still shown without a session and without a load in flight,
\* and lists handoffs.
C28_Witness ==
    /\ feedRoute = "feed"
    /\ session = NoUser
    /\ feedUserId = NoUser
    /\ NoLoadInFlight
    /\ feedHandoffs # <<>>

(***************************************************************************)
(* C29: onboarding terminates the gate.  The onboarding screen navigates   *)
(* to the feed only after a save that succeeded, never after a failed or   *)
(* rejected one; the profile it saved has a non-empty display name and     *)
(* shift, so every later feed load of that user passes the onboarding gate *)
(* and the two screens cannot redirect to each other forever.              *)
(***************************************************************************)
\* The profile stored for the signed-in user passes the gate.
ProfileComplete(rows) ==
    /\ ~ProfileQueryFails(rows, "u1")
    /\ ~GateBlocks(ProfileOf(rows, "u1"))

\* The onboarding screen navigates to the feed in this step.
OnboardLeavesForFeed == onboard.route = "onboarding" /\ onboard'.route = "feed"

\* The feed's gate redirects to the onboarding screen in this step.
FeedRedirects == feedRoute = "feed" /\ feedRoute' = "onboarding"

C29_Step ==
    /\ OnboardLeavesForFeed =>
          /\ \E req \in onboard.reqs :
                /\ req.user_id = "u1"
                /\ dbProfiles' = UpsertProfile(dbProfiles, req)
                /\ req \in {dbProfiles'[i] : i \in 1..Len(dbProfiles')}
          /\ ProfileComplete(dbProfiles')
    /\ ProfileComplete(dbProfiles) =>
          /\ ProfileComplete(dbProfiles')
          /\ ~FeedRedirects
    /\ (onboard.errorMsg # BackendError /\ onboard'.errorMsg = BackendError) =>
          onboard'.route = onboard.route
    /\ \A req \in onboard.reqs \ onboard'.reqs :
          req \notin {dbProfiles'[i] : i \in 1..Len(dbProfiles')} =>
             onboard'.route = onboard.route

SmsSettles(s) == dSms[s].req.route = "alert" /\ dSms'[s].req.route = "none"

C30_Step ==
    /\ dbUpdates' = dbUpdates
    /\ \A s \in Screens :
          /\ (dSms[s].req.route = "none" /\ dSms'[s].req.route = "alert") =>
                /\ dSms'[s].smsSending
                /\ dSms'[s].req.handoff_id = dHandoff[s].id
                /\ ~Truthy(dSms'[s].req.message)
                /\ ~Truthy(dSms'[s].req.Body)
                /\ ~Truthy(dSms'[s].req.secret)
          /\ SmsSettles(s) =>
                /\ ~dSms'[s].smsSending
                /\ dError'[s] # NoMsg
                /\ toast'[s] # ToastSmsSent
                /\ relayReq' # relayReq \/ relayReply' # relayReply =>
                      /\ relayReq' = dSms[s].req
                      /\ relayReply' = IF Truthy(webhookSecret)
                                       THEN Reply(401, Unauthorized)
                                       ELSE Reply(400, FieldsRequired)
                      /\ dError'[s] = relayReply'.body

C30_SendSmsNeverAppends == [][C30_Step]_vars

\* The handler answered 400 to the request of a detail screen, which shows
\* the handler's error, its sending flag false again.
C30_Witness ==
    /\ relayReq.route = "alert"
    /\ relayReply = Reply(400, FieldsRequired)
    /\ \E s \in Screens :
          /\ relayReq.handoff_id = dId[s]
          /\ dError[s] = FieldsRequired
          /\ dSms[s] = NoSms
    /\ dbUpdates = SeedUpdates

====
